---- MODULE Spec2Model ----
(***************************************************************************)
(* A model of addglyph: the table-mutation engine that adds blank glyphs,  *)
(* variation sequences and GSUB substitution rules to a font.              *)
(*                                                                         *)
(* Python values are modelled as follows.                                  *)
(*   str            a sequence of one-character strings                    *)
(*   X | None       None == <<>>, Some(x) == <<x>>                         *)
(*   dict           a function whose DOMAIN is the set of keys             *)
(*   list           a sequence                                             *)
(*   object         a record of its fields                                 *)
(***************************************************************************)
EXTENDS Integers, Sequences, FiniteSets, TLC

VARIABLES
    ttf,               \* the TTFont: cmap subtables, glyf/hmtx/vmtx, GSUB
    font_vs_cmap,      \* AddGlyphHandler._font_vs_cmap (FontVSCmap | None)
    added_count,       \* FontGlyphAdder.added_count
    gsub_adder,        \* AddGlyphHandler._gsub_adder (GSUBRuleAdder | None)
    log,               \* the messages logged by the current run
    pc,                \* position of the run inside addglyph()
    exception,         \* the exception that ended the run, NoError if none
    ti,                \* index of the current feature tag of gsub_gspec
    i,                 \* index of the next item of the current loop
    alternate_by_input,\* addglyph(): the rules collected for the current tag
    run,               \* 1: first run, 2: the run repeated on the saved font
    chars,             \* input: the requested characters, in iteration order
    vs,                \* input: the variation sequences, in dict order
    gsub_gspec,        \* input: <<tag, list of (input, alternate)>>, dict order
    language_systems,  \* input: the (script, langsys) tags given at startup
    rules,             \* input of the rule engine: <<tag, target, replacements>>
    font0              \* the font as it was loaded by the current run

vars == << ttf, font_vs_cmap, added_count, gsub_adder, log, pc, exception,
           ti, i,
           alternate_by_input, run, chars, vs, gsub_gspec, language_systems,
           rules, font0 >>

----------------------------------------------------------------------------
(* Python values *)

None == << >>
Some(x) == << x >>
Val(o) == o[1]

\* dict.get(key)
Get(d, k) == IF k \in DOMAIN d THEN Some(d[k]) ELSE None

\* d[key] = value
Put(d, k, v) == [x \in DOMAIN d \cup {k} |-> IF x = k THEN v ELSE d[x]]

\* d.setdefault(key, value), for its effect on d
SetDefault(d, k, v) == IF k \in DOMAIN d THEN d ELSE Put(d, k, v)

EmptyDict == [x \in {} |-> None]

Range(s) == {s[n] : n \in DOMAIN s}

----------------------------------------------------------------------------
(* Bounds of the model *)

MaxChars == 2
MaxVS == 1
MaxPairs == 1
MaxRules == 2
MaxReplacements == 2
MaxOrderVS == 2
MaxOrderPairs == 2

----------------------------------------------------------------------------
(* generate_glyphname: the glyph name is formatted from the code point *)

BMPLimit == 65536

HexDigit(d) ==
    << "0", "1", "2", "3", "4", "5", "6", "7",
       "8", "9", "A", "B", "C", "D", "E", "F" >>[d + 1]

RECURSIVE HexDigits(_)
HexDigits(n) ==
    IF n < 16 THEN << HexDigit(n) >>
    ELSE Append(HexDigits(n \div 16), HexDigit(n % 16))

\* f"{n:04X}"
Hex04(n) ==
    LET h == HexDigits(n)
    IN  IF Len(h) >= 4 THEN h ELSE [k \in 1..(4 - Len(h)) |-> "0"] \o h

\* A variant of generate_glyphname with a plausible slip: the selector is
\* left out of the name.
generate_glyphname_no_selector(codepoint, selector) ==
    IF codepoint < BMPLimit
    THEN << "u", "n", "i" >> \o Hex04(codepoint)
    ELSE << "u" >> \o Hex04(codepoint)

generate_glyphname(codepoint, selector) ==
    IF selector # None
    THEN << "u" >> \o Hex04(codepoint) \o << "u" >> \o Hex04(Val(selector))
    ELSE IF codepoint < BMPLimit
         THEN << "u", "n", "i" >> \o Hex04(codepoint)
         ELSE << "u" >> \o Hex04(codepoint)

----------------------------------------------------------------------------
(* Log messages and exceptions *)

NoError == "none"

Msg(kind, what) == [kind |-> kind, what |-> what]

----------------------------------------------------------------------------
(* FontGlyphAdder *)

\* The handler state the operations below transform.
Handler ==
    [ ttf |-> ttf, font_vs_cmap |-> font_vs_cmap, added_count |-> added_count,
      gsub_adder |-> gsub_adder, log |-> log, error |-> NoError ]

add_blank_glyph(h, glyphname, description) ==
    [ h EXCEPT
        !.ttf.hmtx = Put(@, glyphname, "blank"),
        !.ttf.vmtx = Put(@, glyphname, "blank"),
        !.ttf.glyf = Put(@, glyphname, "blank"),
        !.ttf.glyphOrder =
            IF glyphname \in Range(@) THEN @ ELSE Append(@, glyphname),
        !.added_count = @ + 1,
        !.log = Append(@, Msg("added", description)) ]

----------------------------------------------------------------------------
(* FontCMap *)

FontCMap_create_subt_from_sub4(sub4) == sub4

\* FontCMap.__init__: [ok, ttf, log]
FontCMap_init(t, lg) ==
    IF t.subt = None
    THEN IF t.sub4 = None
         THEN [ ok |-> FALSE, ttf |-> t, log |-> lg ]
         ELSE [ ok |-> TRUE,
                ttf |-> [ t EXCEPT
                    !.subt = Some(FontCMap_create_subt_from_sub4(Val(t.sub4))) ],
                log |-> Append(lg, Msg("created", "cmap12")) ]
    ELSE [ ok |-> TRUE, ttf |-> t, log |-> lg ]

\* A variant of FontCMap.lookup_glyphname with a plausible slip: the
\* BMP-only subtable is consulted.
FontCMap_lookup_glyphname_bmp(t, codepoint) ==
    IF t.sub4 = None THEN None ELSE Get(Val(t.sub4), codepoint)

FontCMap_lookup_glyphname(t, codepoint) == Get(Val(t.subt), codepoint)

\* Variants of FontCMap.add with a plausible slip: the BMP-only subtable
\* written for the wrong range, not written at all, or overwritten.
FontCMap_add_wrong_range(t, codepoint, glyphname) ==
    LET t1 == IF codepoint >= BMPLimit /\ t.sub4 # None
              THEN [ t EXCEPT
                       !.sub4 = Some(SetDefault(Val(@), codepoint, glyphname)) ]
              ELSE t
    IN  [ t1 EXCEPT !.subt = Some(Put(Val(@), codepoint, glyphname)) ]

FontCMap_add_full_only(t, codepoint, glyphname) ==
    [ t EXCEPT !.subt = Some(Put(Val(@), codepoint, glyphname)) ]

FontCMap_add_overwriting(t, codepoint, glyphname) ==
    LET t1 == IF codepoint < BMPLimit /\ t.sub4 # None
              THEN [ t EXCEPT
                       !.sub4 = Some(Put(Val(@), codepoint, glyphname)) ]
              ELSE t
    IN  [ t1 EXCEPT !.subt = Some(Put(Val(@), codepoint, glyphname)) ]

FontCMap_add(t, codepoint, glyphname) ==
    LET t1 == IF codepoint < BMPLimit /\ t.sub4 # None
              THEN [ t EXCEPT
                       !.sub4 = Some(SetDefault(Val(@), codepoint, glyphname)) ]
              ELSE t
    IN  [ t1 EXCEPT !.subt = Some(Put(Val(@), codepoint, glyphname)) ]

----------------------------------------------------------------------------
(* FontVSCmap *)

\* The dict comprehension of FontVSCmap.__init__: a later entry of a list
\* overwrites an earlier one with the same key.
RECURSIVE IndexUvList(_, _, _)
IndexUvList(index, selector, uvList) ==
    IF uvList = << >> THEN index
    ELSE IndexUvList(
            Put(index, << Head(uvList)[1], selector >>, Head(uvList)[2]),
            selector, Tail(uvList))

RECURSIVE IndexUvsDict(_, _, _)
IndexUvsDict(index, uvsDict, selectors) ==
    IF selectors = {} THEN index
    ELSE LET s == CHOOSE x \in selectors : TRUE
         IN  IndexUvsDict(IndexUvList(index, s, uvsDict[s]), uvsDict,
                          selectors \ {s})

\* FontVSCmap.__init__: [ttf, font_vs_cmap, log]
FontVSCmap_init(t, lg) ==
    LET created == t.sub14 = None
        sub14 == IF created THEN EmptyDict ELSE Val(t.sub14)
    IN  [ ttf |-> [ t EXCEPT !.sub14 = Some(sub14) ],
          font_vs_cmap |->
              Some([ vs_in_font |->
                         IndexUvsDict(EmptyDict, sub14, DOMAIN sub14) ]),
          log |-> IF created THEN Append(lg, Msg("created", "cmap14"))
                  ELSE lg ]

FontVSCmap_lookup_glyphname(fvc, base, selector) ==
    LET e == Get(fvc.vs_in_font, << base, selector >>)
    IN  IF e = None THEN None ELSE Val(e)

\* FontVSCmap.add, on the handler: sub14.uvsDict and the index
FontVSCmap_add(h, base, selector, glyphname) ==
    LET uvsDict == SetDefault(Val(h.ttf.sub14), selector, << >>)
    IN  [ h EXCEPT
            !.ttf.sub14 =
                Some(Put(uvsDict, selector,
                         Append(uvsDict[selector],
                                << base, Some(glyphname) >>))),
            !.font_vs_cmap =
                Some([ vs_in_font |->
                         Put(Val(@).vs_in_font, << base, selector >>,
                             Some(glyphname)) ]) ]

----------------------------------------------------------------------------
(* AddGlyphHandler: characters and variation sequences *)

AddGlyphHandler_get_font_vs_cmap(h) ==
    IF h.font_vs_cmap = None
    THEN LET r == FontVSCmap_init(h.ttf, h.log)
         IN  [ h EXCEPT !.ttf = r.ttf, !.font_vs_cmap = r.font_vs_cmap,
                        !.log = r.log ]
    ELSE h

\* AddGlyphHandler._ensure_glyph: [h, glyphname, added]
AddGlyphHandler_ensure_glyph(h, codepoint, description) ==
    LET found == FontCMap_lookup_glyphname(h.ttf, codepoint)
        glyphname == generate_glyphname(codepoint, None)
    IN  IF found # None
        THEN [ h |-> h, glyphname |-> Val(found), added |-> FALSE ]
        ELSE [ h |-> add_blank_glyph(
                        [ h EXCEPT
                            !.ttf = FontCMap_add(@, codepoint, glyphname) ],
                        glyphname, description),
               glyphname |-> glyphname, added |-> TRUE ]

AddGlyphHandler_add_glyph(h, codepoint) ==
    LET r == AddGlyphHandler_ensure_glyph(h, codepoint,
                                          << "char", codepoint >>)
    IN  IF r.added THEN r.h
        ELSE [ r.h EXCEPT
                 !.log = Append(@, Msg("already in font",
                                       << "char", codepoint >>)) ]

AddGlyphHandler_add_vs_glyph(h, base, selector, is_default) ==
    LET h1 == AddGlyphHandler_get_font_vs_cmap(h)
    IN  IF FontVSCmap_lookup_glyphname(Val(h1.font_vs_cmap), base, selector)
               # None
        THEN [ h1 EXCEPT
                 !.log = Append(@, Msg("already in font",
                                       << "vs", base, selector >>)) ]
        ELSE IF is_default
        THEN LET r == AddGlyphHandler_ensure_glyph(
                          h1, base, << "base", base, selector >>)
                 h2 == FontVSCmap_add(r.h, base, selector, r.glyphname)
             IN  [ h2 EXCEPT
                     !.log = Append(@, Msg("added",
                                 << "vs as default", base, selector >>)) ]
        ELSE LET glyphname == generate_glyphname(base, Some(selector))
                 h2 == FontVSCmap_add(h1, base, selector, glyphname)
             IN  add_blank_glyph(h2, glyphname,
                                 << "vs as non-default", base, selector >>)

\* "%.5d" % n
Dec05(n) ==
    [ k \in 1..5 |->
        << "0", "1", "2", "3", "4", "5", "6", "7", "8", "9" >>
            [((n \div (10 ^ (5 - k))) % 10) + 1] ]

\* TTFont.getGlyphName: the name at this index of the glyph order, and a
\* made-up name for an index there is no glyph for
getGlyphName(t, gid) ==
    IF gid < Len(t.glyphOrder) THEN t.glyphOrder[gid + 1]
    ELSE << "g", "l", "y", "p", "h" >> \o Dec05(gid)

\* A GlyphSpec is a glyph index, or a (code point, selector | None) pair.
GidSpec(gid) == [ gid |-> gid ]
CpSpec(base, selector) == [ base |-> base, selector |-> selector ]
IsGid(gspec) == "gid" \in DOMAIN gspec

\* AddGlyphHandler.get_glyphname_from_gspec: [h, glyphname]; h.error names
\* the exception when one is raised.
AddGlyphHandler_get_glyphname_from_gspec(h, gspec) ==
    IF IsGid(gspec)
    THEN [ h |-> h, glyphname |-> getGlyphName(h.ttf, gspec.gid) ]
    ELSE IF gspec.selector = None
    THEN LET r == AddGlyphHandler_ensure_glyph(h, gspec.base,
                                               << "char", gspec.base >>)
         IN  [ h |-> r.h, glyphname |-> r.glyphname ]
    ELSE LET h1 == AddGlyphHandler_get_font_vs_cmap(h)
             found == FontVSCmap_lookup_glyphname(
                          Val(h1.font_vs_cmap), gspec.base,
                          Val(gspec.selector))
         IN  IF found # None
             THEN [ h |-> h1, glyphname |-> Val(found) ]
             ELSE [ h |-> [ h1 EXCEPT !.error = "AddGlyphUserError" ],
                    glyphname |-> None ]

----------------------------------------------------------------------------
(* gsub.py: merging of alternates *)

RECURSIVE Dedup(_, _)
\* list(dict.fromkeys(right)): first occurrences, in order
Dedup(seen, right) ==
    IF right = << >> THEN seen
    ELSE Dedup(IF Head(right) \in Range(seen) THEN seen
               ELSE Append(seen, Head(right)),
               Tail(right))

\* A variant of _merge_alternates with a plausible slip: the elements that
\* left already has are appended again.
merge_alternates_repeating(left, right) == left \o Dedup(<< >>, right)

merge_alternates(left, right) ==
    left \o SelectSeq(Dedup(<< >>, right), LAMBDA e : e \notin Range(left))

----------------------------------------------------------------------------
(* gsub.py: the GSUB table and the lookup rule adders *)

UseMarkFilteringSet == 16

SingleSubst(mapping) == [ kind |-> "SingleSubst", mapping |-> mapping ]
AlternateSubst(alternates) ==
    [ kind |-> "AlternateSubst", alternates |-> alternates ]
ExtensionSubst(type, subtable) ==
    [ kind |-> "ExtensionSubst", ExtensionLookupType |-> type,
      ExtSubTable |-> subtable ]

Lookup(type, flag, mfs, subtables) ==
    [ LookupType |-> type, LookupFlag |-> flag, MarkFilteringSet |-> mfs,
      SubTableCount |-> Len(subtables), SubTable |-> subtables ]

\* A lookup rule adder: its class and the lookup it holds, which is always
\* the lookup at this index of the lookup list.
LookupAdder(class, feature_tag) ==
    [ class |-> class, feature_tag |-> feature_tag ]

IsSingleAdder(adder) == adder.class \in {"Type1", "Type7Single"}

\* The engine state the operations below transform: the GSUB table, the
\* GSUBRuleAdder and the log; error names the exception raised, if any.
Failed(st) == st.error # NoError
Raise(st, raised) == [ st EXCEPT !.error = raised ]
Logged(st, kind, what) == [ st EXCEPT !.log = Append(@, Msg(kind, what)) ]

RuleOf(adder, target, replacements) ==
    << "rule", adder.feature_tag, target, replacements >>

\* _get_subtables: [ok, subtables]. The Type7 adders read lookup.Subtable,
\* an attribute a Lookup does not have (its subtables are lookup.SubTable).
get_subtables(st, lookup_index) ==
    LET adder == st.ra.lookup_adders[lookup_index]
        lookup == st.gsub.LookupList.Lookup[lookup_index + 1]
    IN  IF adder.class \in {"Type7Single", "Type7Alternate"}
        THEN [ error |-> "AttributeError", subtables |-> << >> ]
        ELSE IF \A k \in DOMAIN lookup.SubTable :
                  lookup.SubTable[k].kind =
                      (IF adder.class = "Type1" THEN "SingleSubst"
                       ELSE "AlternateSubst")
        THEN [ error |-> NoError, subtables |-> lookup.SubTable ]
        ELSE [ error |-> "AssertionError", subtables |-> << >> ]

\* _add_subtable of the four adder classes
add_subtable(st, lookup_index, subtable) ==
    LET adder == st.ra.lookup_adders[lookup_index]
        wrapped ==
            IF adder.class = "Type7Single" THEN ExtensionSubst(1, subtable)
            ELSE IF adder.class = "Type7Alternate"
            THEN ExtensionSubst(3, subtable)
            ELSE subtable
    IN  [ st EXCEPT
            !.gsub.LookupList.Lookup[lookup_index + 1].SubTable =
                Append(@, wrapped),
            !.gsub.LookupList.Lookup[lookup_index + 1].SubTableCount = @ + 1 ]

\* Index of the first subtable whose dict has the target; 0 when none has.
FirstWith(dicts, target) ==
    LET ks == { k \in DOMAIN dicts : target \in DOMAIN dicts[k] }
    IN  IF ks = {} THEN 0 ELSE CHOOSE k \in ks : \A j \in ks : k <= j

\* A variant of GSUBSingleSubstRuleAdder.try_add_rule with a plausible slip:
\* a target that is already mapped to another glyph is remapped in place
\* instead of the rule being handed to the upgrade.
Single_try_add_rule_replacing(st, lookup_index, target, replacements) ==
    LET adder == st.ra.lookup_adders[lookup_index]
        got == get_subtables(st, lookup_index)
        having == { k \in DOMAIN got.subtables :
                      target \in DOMAIN got.subtables[k].mapping }
        k == IF having = {} THEN 1
             ELSE CHOOSE a \in having : \A b \in having : a <= b
        st1 == IF got.subtables # << >> THEN st
               ELSE add_subtable(st, lookup_index, SingleSubst(EmptyDict))
        st2 == [ st1 EXCEPT
                   !.gsub.LookupList.Lookup[lookup_index + 1]
                        .SubTable[k].mapping =
                       Put(@, target, replacements[1]) ]
    IN  IF Len(replacements) > 1 THEN [ st |-> st, success |-> FALSE ]
        ELSE IF replacements = << >> THEN [ st |-> st, success |-> TRUE ]
        ELSE IF got.error # NoError
        THEN [ st |-> Raise(st, got.error), success |-> FALSE ]
        ELSE [ st |-> Logged(st2, "added",
                             RuleOf(adder, target, replacements)),
               success |-> TRUE ]

\* GSUBSingleSubstRuleAdder.try_add_rule: [st, success]
Single_try_add_rule(st, lookup_index, target, replacements) ==
    LET adder == st.ra.lookup_adders[lookup_index]
        got == get_subtables(st, lookup_index)
        mappings == [ k \in DOMAIN got.subtables |->
                        got.subtables[k].mapping ]
        k == FirstWith(mappings, target)
    IN  IF Len(replacements) > 1 THEN [ st |-> st, success |-> FALSE ]
        ELSE IF replacements = << >> THEN [ st |-> st, success |-> TRUE ]
        ELSE IF got.error # NoError
        THEN [ st |-> Raise(st, got.error), success |-> FALSE ]
        ELSE IF k # 0
        THEN LET merged == merge_alternates(<< mappings[k][target] >>,
                                            replacements)
             IN  IF merged = << mappings[k][target] >>
                 THEN [ st |-> Logged(st, "already in font",
                                      RuleOf(adder, target, merged)),
                        success |-> TRUE ]
                 ELSE [ st |-> st, success |-> FALSE ]
        ELSE LET st1 == IF got.subtables # << >> THEN st
                        ELSE add_subtable(st, lookup_index,
                                          SingleSubst(EmptyDict))
                 st2 == [ st1 EXCEPT
                     !.gsub.LookupList.Lookup[lookup_index + 1]
                          .SubTable[1].mapping =
                         Put(@, target, replacements[1]) ]
             IN  [ st |-> Logged(st2, "added",
                                 RuleOf(adder, target, replacements)),
                   success |-> TRUE ]

\* GSUBAlternateSubstRuleAdder.try_add_rule: [st, success]
Alternate_try_add_rule(st, lookup_index, target, replacements) ==
    LET adder == st.ra.lookup_adders[lookup_index]
        got == get_subtables(st, lookup_index)
        dicts == [ k \in DOMAIN got.subtables |->
                     got.subtables[k].alternates ]
        k == FirstWith(dicts, target)
    IN  IF replacements = << >> THEN [ st |-> st, success |-> TRUE ]
        ELSE IF got.error # NoError
        THEN [ st |-> Raise(st, got.error), success |-> FALSE ]
        ELSE IF k # 0
        THEN LET existing == dicts[k][target]
                 new_alternates == merge_alternates(existing, replacements)
                 st1 == [ st EXCEPT
                     !.gsub.LookupList.Lookup[lookup_index + 1]
                          .SubTable[k].alternates =
                         Put(@, target, new_alternates) ]
             IN  [ st |-> Logged(st1,
                                 IF existing # new_alternates THEN "added"
                                 ELSE "already in font",
                                 RuleOf(adder, target, new_alternates)),
                   success |-> TRUE ]
        ELSE LET st1 == IF got.subtables # << >> THEN st
                        ELSE add_subtable(st, lookup_index,
                                          AlternateSubst(EmptyDict))
                 st2 == [ st1 EXCEPT
                     !.gsub.LookupList.Lookup[lookup_index + 1]
                          .SubTable[1].alternates =
                         Put(@, target, replacements) ]
             IN  [ st |-> Logged(st2, "added",
                                 RuleOf(adder, target, replacements)),
                   success |-> TRUE ]

try_add_rule(st, lookup_index, target, replacements) ==
    IF IsSingleAdder(st.ra.lookup_adders[lookup_index])
    THEN Single_try_add_rule(st, lookup_index, target, replacements)
    ELSE Alternate_try_add_rule(st, lookup_index, target, replacements)

RECURSIVE MergeMappings(_)
\* GSUBSingleSubstRuleAdder.get_merged_mapping, given the mappings of the
\* subtables: updated from the last to the first, so the first one wins.
MergeMappings(mappings) ==
    IF mappings = << >> THEN EmptyDict
    ELSE LET rest == MergeMappings(Tail(mappings))
             first == Head(mappings)
         IN  [ t \in DOMAIN rest \cup DOMAIN first |->
                 IF t \in DOMAIN first THEN first[t] ELSE rest[t] ]

----------------------------------------------------------------------------
(* gsub.py: GSUBFeatureRuleAdder *)

HasFlag(flag, bit) == (flag \div bit) % 2 = 1

\* A variant of GSUBFeatureRuleAdder.__init__ with a plausible slip: a
\* feature with several lookups is not rejected, its first lookup is taken.
GSUBFeatureRuleAdder_init_first_lookup(st, feature_index) ==
    LET feature_record == st.gsub.FeatureList.FeatureRecord[feature_index + 1]
        feature_tag == feature_record.FeatureTag
        lookup_indices == feature_record.Feature.LookupListIndex
        create == lookup_indices = << >>
        lookup_index == IF create THEN Len(st.gsub.LookupList.Lookup)
                        ELSE lookup_indices[1]
        st1 == IF create
               THEN [ st EXCEPT
                   !.gsub.LookupList.Lookup =
                       Append(@, Lookup(1, 0, None, << >>)),
                   !.gsub.LookupList.LookupCount = @ + 1,
                   !.gsub.FeatureList.FeatureRecord[feature_index + 1]
                        .Feature.LookupListIndex = Append(@, lookup_index),
                   !.gsub.FeatureList.FeatureRecord[feature_index + 1]
                        .Feature.LookupCount = @ + 1 ]
               ELSE st
        lookup == st1.gsub.LookupList.Lookup[lookup_index + 1]
        lookup_type == IF lookup.SubTable # << >>
                       THEN lookup.SubTable[1].ExtensionLookupType
                       ELSE 1
        class ==
            IF lookup.LookupType = 1 THEN "Type1"
            ELSE IF lookup.LookupType = 3 THEN "Type3"
            ELSE IF lookup.LookupType = 7 /\ lookup_type = 1
            THEN "Type7Single"
            ELSE IF lookup.LookupType = 7 /\ lookup_type = 3
            THEN "Type7Alternate"
            ELSE "unsupported"
        registered ==
            [ st1 EXCEPT
                !.ra.feature_adders =
                    Put(@, feature_index,
                        [ feature_tag |-> feature_tag,
                          lookup_index |-> lookup_index ]) ]
    IN  IF lookup_index \in DOMAIN st1.ra.lookup_adders
        THEN registered
        ELSE IF class = "unsupported"
        THEN Raise(st1, "GSUBInvariantViolation")
        ELSE IF /\ lookup.LookupType = 7
                /\ \E k \in DOMAIN lookup.SubTable :
                      lookup.SubTable[k].ExtensionLookupType # lookup_type
        THEN Raise(st1, "AssertionError")
        ELSE [ registered EXCEPT
                 !.ra.lookup_adders =
                     Put(@, lookup_index, LookupAdder(class, feature_tag)) ]

\* GSUBFeatureRuleAdder.__init__, stored in feature_adders by
\* GSUBRuleAdder._get_feature_adder
GSUBFeatureRuleAdder_init(st, feature_index) ==
    LET feature_record == st.gsub.FeatureList.FeatureRecord[feature_index + 1]
        feature_tag == feature_record.FeatureTag
        lookup_indices == feature_record.Feature.LookupListIndex
        create == lookup_indices = << >>
        lookup_index == IF create THEN Len(st.gsub.LookupList.Lookup)
                        ELSE lookup_indices[1]
        st1 == IF create
               THEN [ st EXCEPT
                   !.gsub.LookupList.Lookup =
                       Append(@, Lookup(1, 0, None, << >>)),
                   !.gsub.LookupList.LookupCount = @ + 1,
                   !.gsub.FeatureList.FeatureRecord[feature_index + 1]
                        .Feature.LookupListIndex = Append(@, lookup_index),
                   !.gsub.FeatureList.FeatureRecord[feature_index + 1]
                        .Feature.LookupCount = @ + 1 ]
               ELSE st
        lookup == st1.gsub.LookupList.Lookup[lookup_index + 1]
        lookup_type == IF lookup.SubTable # << >>
                       THEN lookup.SubTable[1].ExtensionLookupType
                       ELSE 1
        class ==
            IF lookup.LookupType = 1 THEN "Type1"
            ELSE IF lookup.LookupType = 3 THEN "Type3"
            ELSE IF lookup.LookupType = 7 /\ lookup_type = 1
            THEN "Type7Single"
            ELSE IF lookup.LookupType = 7 /\ lookup_type = 3
            THEN "Type7Alternate"
            ELSE "unsupported"
        registered ==
            [ st1 EXCEPT
                !.ra.feature_adders =
                    Put(@, feature_index,
                        [ feature_tag |-> feature_tag,
                          lookup_index |-> lookup_index ]) ]
    IN  IF Len(lookup_indices) > 1
        THEN Raise(st, "GSUBInvariantViolation")
        ELSE IF lookup_index \in DOMAIN st1.ra.lookup_adders
        THEN registered
        ELSE IF class = "unsupported"
        THEN Raise(st1, "GSUBInvariantViolation")
        ELSE IF /\ lookup.LookupType = 7
                /\ \E k \in DOMAIN lookup.SubTable :
                      lookup.SubTable[k].ExtensionLookupType # lookup_type
        THEN Raise(st1, "AssertionError")
        ELSE [ registered EXCEPT
                 !.ra.lookup_adders =
                     Put(@, lookup_index, LookupAdder(class, feature_tag)) ]

\* A variant of _upgrade_lookup_to_alternate with a plausible slip: the
\* new lookup does not take over the flags and the mark-filtering set.
upgrade_lookup_to_alternate_plain(st, feature_index) ==
    LET fa == st.ra.feature_adders[feature_index]
        lookup_index == fa.lookup_index
        got == get_subtables(st, lookup_index)
        mapping == MergeMappings([ k \in DOMAIN got.subtables |->
                                     got.subtables[k].mapping ])
        new_subtable ==
            AlternateSubst([ t \in DOMAIN mapping |-> << mapping[t] >> ])
        old_lookup == st.gsub.LookupList.Lookup[lookup_index + 1]
    IN  IF ~IsSingleAdder(st.ra.lookup_adders[lookup_index])
        THEN Raise(st, "AssertionError")
        ELSE IF got.error # NoError THEN Raise(st, got.error)
        ELSE IF old_lookup.LookupType = 1
        THEN [ st EXCEPT
                 !.gsub.LookupList.Lookup[lookup_index + 1] =
                     Lookup(3, 0, None, << new_subtable >>),
                 !.ra.lookup_adders =
                     Put(@, lookup_index,
                         LookupAdder("Type3", fa.feature_tag)) ]
        ELSE IF old_lookup.LookupType = 7
        THEN [ st EXCEPT
                 !.gsub.LookupList.Lookup[lookup_index + 1].SubTableCount = 1,
                 !.gsub.LookupList.Lookup[lookup_index + 1].SubTable =
                     << ExtensionSubst(3, new_subtable) >>,
                 !.ra.lookup_adders =
                     Put(@, lookup_index,
                         LookupAdder("Type7Alternate", fa.feature_tag)) ]
        ELSE Raise(st, "AssertionError")

\* GSUBFeatureRuleAdder._upgrade_lookup_to_alternate
upgrade_lookup_to_alternate(st, feature_index) ==
    LET fa == st.ra.feature_adders[feature_index]
        lookup_index == fa.lookup_index
        lookup_adder == st.ra.lookup_adders[lookup_index]
        got == get_subtables(st, lookup_index)
        mapping == MergeMappings([ k \in DOMAIN got.subtables |->
                                     got.subtables[k].mapping ])
        new_subtable ==
            AlternateSubst([ t \in DOMAIN mapping |-> << mapping[t] >> ])
        old_lookup == st.gsub.LookupList.Lookup[lookup_index + 1]
        new_lookup ==
            Lookup(3, old_lookup.LookupFlag,
                   IF HasFlag(old_lookup.LookupFlag, UseMarkFilteringSet)
                   THEN old_lookup.MarkFilteringSet ELSE None,
                   << new_subtable >>)
    IN  IF ~IsSingleAdder(lookup_adder) THEN Raise(st, "AssertionError")
        ELSE IF got.error # NoError THEN Raise(st, got.error)
        ELSE IF old_lookup.LookupType = 1
        THEN [ st EXCEPT
                 !.gsub.LookupList.Lookup[lookup_index + 1] = new_lookup,
                 !.ra.lookup_adders =
                     Put(@, lookup_index,
                         LookupAdder("Type3", fa.feature_tag)) ]
        ELSE IF old_lookup.LookupType = 7
        THEN [ st EXCEPT
                 !.gsub.LookupList.Lookup[lookup_index + 1].SubTableCount = 1,
                 !.gsub.LookupList.Lookup[lookup_index + 1].SubTable =
                     << ExtensionSubst(3, new_subtable) >>,
                 !.ra.lookup_adders =
                     Put(@, lookup_index,
                         LookupAdder("Type7Alternate", fa.feature_tag)) ]
        ELSE Raise(st, "AssertionError")

\* GSUBFeatureRuleAdder.add_rule
GSUBFeatureRuleAdder_add_rule(st, feature_index, target, replacements_) ==
    LET lookup_index == st.ra.feature_adders[feature_index].lookup_index
        replacements == merge_alternates(<< >>, replacements_)
        AfterSecond(second) ==
            IF Failed(second.st) \/ second.success THEN second.st
            ELSE Raise(second.st, "AssertionError")
        AfterUpgrade(upgraded) ==
            IF Failed(upgraded) THEN upgraded
            ELSE AfterSecond(try_add_rule(upgraded, lookup_index, target,
                                          replacements))
        AfterFirst(first) ==
            IF Failed(first.st) \/ first.success THEN first.st
            ELSE AfterUpgrade(
                     upgrade_lookup_to_alternate(first.st, feature_index))
    IN  AfterFirst(try_add_rule(st, lookup_index, target, replacements))

----------------------------------------------------------------------------
(* gsub.py: GSUBRuleAdder *)

\* The tags of the model in the order Python compares strings.
TagOrder ==
    << "DFLT", "JAN ", "aalt", "dflt", "hani", "kana", "salt", "vert",
       "vrt2" >>
TagRank(tag) == CHOOSE k \in DOMAIN TagOrder : TagOrder[k] = tag

\* list.sort(key=lambda record: record.<key>): a stable sort by the rank of
\* the tag in the field named key
StableSort(seq, key) ==
    LET n == Len(seq)
        pos(a) == 1 + Cardinality({ b \in 1..n :
                        \/ TagRank(seq[b][key]) < TagRank(seq[a][key])
                        \/ /\ seq[b][key] = seq[a][key]
                           /\ b < a })
    IN  SubSeq([ p \in 1..n |-> seq[CHOOSE a \in 1..n : pos(a) = p] ], 1, n)

create_langsys ==
    [ LookupOrder |-> None, ReqFeatureIndex |-> 65535, FeatureCount |-> 0,
      FeatureIndex |-> << >> ]

\* Position of the first element of seq that is among the matching ones, 0
\* when none is
FirstPos(seq, matching) ==
    LET ks == { k \in DOMAIN seq : seq[k] \in matching }
    IN  IF ks = {} THEN 0 ELSE CHOOSE k \in ks : \A j \in ks : k <= j

\* ensure_langsys of _get_dflt_langsys: [gsub, log]
ensure_langsys(g, lg, script_tag, langsys_tag) ==
    LET HasTag(sr) == sr.ScriptTag = script_tag
        found == FirstPos(g.ScriptList.ScriptRecord,
            { e \in Range(g.ScriptList.ScriptRecord) : HasTag(e) })
        new_record ==
            [ ScriptTag |-> script_tag,
              Script |-> [ DefaultLangSys |-> None, LangSysCount |-> 0,
                           LangSysRecord |-> << >> ] ]
        g1 == IF found # 0 THEN g
              ELSE [ g EXCEPT
                  !.ScriptList.ScriptRecord =
                      StableSort(Append(@, new_record), "ScriptTag"),
                  !.ScriptList.ScriptCount = @ + 1 ]
        lg1 == IF found # 0 THEN lg
               ELSE Append(lg, Msg("created", << "script", script_tag >>))
        s == FirstPos(g1.ScriptList.ScriptRecord,
            { e \in Range(g1.ScriptList.ScriptRecord) : HasTag(e) })
        script == g1.ScriptList.ScriptRecord[s].Script
        HasLangSysTag(lsr) == lsr.LangSysTag = langsys_tag
        new_langsys_record ==
            [ LangSysTag |-> langsys_tag, LangSys |-> create_langsys ]
    IN  IF langsys_tag = "dflt"
        THEN IF script.DefaultLangSys # None
             THEN [ gsub |-> g1, log |-> lg1 ]
             ELSE [ gsub |-> [ g1 EXCEPT
                        !.ScriptList.ScriptRecord[s].Script.DefaultLangSys =
                            Some(create_langsys) ],
                    log |-> Append(lg1, Msg("created",
                                << "default langsys", script_tag >>)) ]
        ELSE IF FirstPos(script.LangSysRecord,
            { e \in Range(script.LangSysRecord) : HasLangSysTag(e) }) # 0
        THEN [ gsub |-> g1, log |-> lg1 ]
        ELSE [ gsub |-> [ g1 EXCEPT
                   !.ScriptList.ScriptRecord[s].Script.LangSysRecord =
                       StableSort(Append(@, new_langsys_record),
                                  "LangSysTag"),
                   !.ScriptList.ScriptRecord[s].Script.LangSysCount = @ + 1 ],
               log |-> Append(lg1, Msg("created",
                           << "langsys", script_tag, langsys_tag >>)) ]

RECURSIVE EnsureAll(_, _, _)
EnsureAll(g, lg, langsys_tags) ==
    IF langsys_tags = << >> THEN [ gsub |-> g, log |-> lg ]
    ELSE LET Rest(r) == EnsureAll(r.gsub, r.log, Tail(langsys_tags))
         IN  Rest(ensure_langsys(g, lg, Head(langsys_tags)[1],
                                 Head(langsys_tags)[2]))

\* A language system is designated by << s, 0 >>, the default language
\* system of the s-th script record, or by << s, k >>, its k-th
\* LangSysRecord.
LangSysAt(g, path) ==
    LET script == g.ScriptList.ScriptRecord[path[1]].Script
    IN  IF path[2] = 0 THEN Val(script.DefaultLangSys)
        ELSE script.LangSysRecord[path[2]].LangSys

\* langsys.FeatureIndex.append(feature_index); langsys.FeatureCount += 1
AppendFeature(g, path, feature_index) ==
    IF path[2] = 0
    THEN [ g EXCEPT
             !.ScriptList.ScriptRecord[path[1]].Script.DefaultLangSys =
                 Some([ Val(@) EXCEPT
                          !.FeatureIndex = Append(@, feature_index),
                          !.FeatureCount = @ + 1 ]) ]
    ELSE [ g EXCEPT
             !.ScriptList.ScriptRecord[path[1]].Script
              .LangSysRecord[path[2]].LangSys =
                 [ @ EXCEPT !.FeatureIndex = Append(@, feature_index),
                            !.FeatureCount = @ + 1 ] ]

RECURSIVE Flatten(_)
Flatten(seqs) == IF seqs = << >> THEN << >>
                 ELSE Head(seqs) \o Flatten(Tail(seqs))

\* A variant of the enumeration with a plausible slip: the named language
\* systems are left out.
AllLangSys_defaults(g) ==
    Flatten([ s \in DOMAIN g.ScriptList.ScriptRecord |->
        IF g.ScriptList.ScriptRecord[s].Script.DefaultLangSys = None
        THEN << >> ELSE << << s, 0 >> >> ])

\* Every language system that is not None: for each script record, the
\* default language system, then those of its LangSysRecords.
AllLangSys(g) ==
    Flatten([ s \in DOMAIN g.ScriptList.ScriptRecord |->
        LET script == g.ScriptList.ScriptRecord[s].Script
        IN  (IF script.DefaultLangSys = None THEN << >>
             ELSE << << s, 0 >> >>)
            \o [ k \in DOMAIN script.LangSysRecord |-> << s, k >> ] ])

\* A variant of the choice with a plausible slip: the script 'DFLT' is not
\* preferred, the first supplied pair always names the result.
get_dflt_langsys_first_pair(r, langsys_tags) ==
    LET records == r.gsub.ScriptList.ScriptRecord
        HasTag(sr) == sr.ScriptTag = langsys_tags[1][1]
        s == FirstPos(records, { e \in Range(records) : HasTag(e) })
        HasLangSysTag(lsr) == lsr.LangSysTag = langsys_tags[1][2]
        k == FirstPos(records[s].Script.LangSysRecord,
            { e \in Range(records[s].Script.LangSysRecord) : HasLangSysTag(e) })
    IN  [ gsub |-> r.gsub, log |-> r.log, error |-> NoError,
          dflt_langsys |->
              IF langsys_tags[1][2] = "dflt" THEN << s, 0 >> ELSE << s, k >> ]

\* GSUBRuleAdder._get_dflt_langsys: [gsub, log, error, dflt_langsys]
get_dflt_langsys_after(r, langsys_tags) ==
    LET records == r.gsub.ScriptList.ScriptRecord
        IsDFLT(sr) == sr.ScriptTag = "DFLT"
        dflt == FirstPos(records, { e \in Range(records) : IsDFLT(e) })
        script_tag == langsys_tags[1][1]
        langsys_tag == langsys_tags[1][2]
        HasTag(sr) == sr.ScriptTag = script_tag
        s == FirstPos(records, { e \in Range(records) : HasTag(e) })
        HasLangSysTag(lsr) == lsr.LangSysTag = langsys_tag
        k == FirstPos(records[s].Script.LangSysRecord,
            { e \in Range(records[s].Script.LangSysRecord) : HasLangSysTag(e) })
        Result(error, path) ==
            [ gsub |-> r.gsub, log |-> r.log, error |-> error,
              dflt_langsys |-> path ]
    IN  IF dflt # 0
        THEN IF records[dflt].Script.DefaultLangSys = None
             THEN Result("AssertionError", << 0, 0 >>)
             ELSE Result(NoError, << dflt, 0 >>)
        ELSE IF langsys_tags = << >> THEN Result("IndexError", << 0, 0 >>)
        ELSE IF s = 0 THEN Result("KeyError", << 0, 0 >>)
        ELSE IF langsys_tag = "dflt" THEN Result(NoError, << s, 0 >>)
        ELSE IF k = 0 THEN Result("KeyError", << 0, 0 >>)
        ELSE Result(NoError, << s, k >>)

get_dflt_langsys(g, lg, langsys_tags) ==
    get_dflt_langsys_after(EnsureAll(g, lg, langsys_tags), langsys_tags)

\* GSUBRuleAdder.__init__: the engine state [gsub, ra, log, error]
GSUBRuleAdder_init(g, lg, langsys_tags) ==
    LET Built(r) ==
            [ gsub |-> r.gsub, log |-> r.log, error |-> r.error,
              ra |-> [ feature_indices_by_tag |-> EmptyDict,
                       feature_adders |-> EmptyDict,
                       lookup_adders |-> EmptyDict,
                       dflt_langsys |-> r.dflt_langsys,
                       initial_lookup_count |->
                           r.gsub.LookupList.LookupCount ] ]
    IN  Built(get_dflt_langsys(g, lg, langsys_tags))

TagOfFeature(g, feature_index) ==
    g.FeatureList.FeatureRecord[feature_index + 1].FeatureTag

LangSysHasTag(g, path, feature_tag) ==
    \E n \in DOMAIN LangSysAt(g, path).FeatureIndex :
        TagOfFeature(g, LangSysAt(g, path).FeatureIndex[n]) = feature_tag

RECURSIVE PropagateFeature(_, _, _, _)
\* The second loop of _ensure_langsys_has_feature
PropagateFeature(g, paths, feature_tag, feature_index) ==
    IF paths = << >> THEN g
    ELSE PropagateFeature(
            IF LangSysHasTag(g, Head(paths), feature_tag) THEN g
            ELSE AppendFeature(g, Head(paths), feature_index),
            Tail(paths), feature_tag, feature_index)

\* GSUBRuleAdder._ensure_langsys_has_feature
ensure_langsys_has_feature(st, feature_tag) ==
    LET g == st.gsub
        dflt == LangSysAt(g, st.ra.dflt_langsys)
        HasTag(feature_index) == TagOfFeature(g, feature_index) = feature_tag
        new_record ==
            [ FeatureTag |-> feature_tag,
              Feature |-> [ FeatureParams |-> None, LookupCount |-> 0,
                            LookupListIndex |-> << >> ] ]
        Propagate(st1, g1, feature_index) ==
            [ st1 EXCEPT
                !.gsub = PropagateFeature(g1, AllLangSys(g1), feature_tag,
                                          feature_index) ]
        Ensure(found, feature_index) ==
            IF found # 0 THEN Propagate(st, g, dflt.FeatureIndex[found])
            ELSE Propagate(
                     Logged(st, "created", << "feature", feature_tag >>),
                     AppendFeature(
                         [ g EXCEPT
                             !.FeatureList.FeatureRecord =
                                 Append(@, new_record),
                             !.FeatureList.FeatureCount = @ + 1 ],
                         st.ra.dflt_langsys, feature_index),
                     feature_index)
    IN  Ensure(FirstPos(dflt.FeatureIndex,
                        { e \in Range(dflt.FeatureIndex) : HasTag(e) }),
               Len(g.FeatureList.FeatureRecord))

\* GSUBRuleAdder._get_feature_indices: the engine state; the indices are
\* st.ra.feature_indices_by_tag[feature_tag] afterwards.
get_feature_indices(st, feature_tag) ==
    IF feature_tag \in DOMAIN st.ra.feature_indices_by_tag THEN st
    ELSE LET Indices(g, paths) ==
                 UNION { { feature_index \in
                             Range(LangSysAt(g, paths[p]).FeatureIndex) :
                             TagOfFeature(g, feature_index) = feature_tag } :
                         p \in DOMAIN paths }
             Cached(st1) ==
                 [ st1 EXCEPT
                     !.ra.feature_indices_by_tag =
                         Put(@, feature_tag,
                             Indices(st1.gsub, AllLangSys(st1.gsub))) ]
         IN  Cached(ensure_langsys_has_feature(st, feature_tag))

GSUBRuleAdder_get_feature_adder(st, feature_index) ==
    IF feature_index \in DOMAIN st.ra.feature_adders THEN st
    ELSE GSUBFeatureRuleAdder_init(st, feature_index)

RECURSIVE AddRuleToFeatures(_, _, _, _)
\* The loop of GSUBRuleAdder.add_rule over the set of feature indices, which
\* CPython iterates in ascending order for small integers.
AddRuleToFeatures(st, feature_indices, target, replacements) ==
    IF feature_indices = {} \/ Failed(st) THEN st
    ELSE LET feature_index ==
                 CHOOSE x \in feature_indices :
                     \A y \in feature_indices : x <= y
             AddRule(st1) ==
                 IF Failed(st1) THEN st1
                 ELSE GSUBFeatureRuleAdder_add_rule(
                          st1, feature_index, target, replacements)
         IN  AddRuleToFeatures(
                 AddRule(GSUBRuleAdder_get_feature_adder(st, feature_index)),
                 feature_indices \ {feature_index}, target, replacements)

\* GSUBRuleAdder.add_rule
GSUBRuleAdder_add_rule(st, feature_tag, target, replacements) ==
    LET Loop(st1) ==
            AddRuleToFeatures(st1, st1.ra.feature_indices_by_tag[feature_tag],
                              target, replacements)
    IN  Loop(get_feature_indices(st, feature_tag))

----------------------------------------------------------------------------
(* gsub.py: GSUBRuleAdder.reorder_lookups *)

\* A SubstLookupRecord of a context rule
SubstLookupRecord(sequence_index, lookup_index) ==
    [ SequenceIndex |-> sequence_index, LookupListIndex |-> lookup_index ]

IsContext(subtable) ==
    subtable.kind \in { "ContextSubst", "ChainContextSubst" }

\* The attribute that holds the rule sets of a context subtable of format 1
\* or 2, and the attribute of a rule set that holds its rules
RuleSetField(subtable) ==
    IF subtable.kind = "ContextSubst"
    THEN (IF subtable.Format = 1 THEN "SubRuleSet" ELSE "SubClassSet")
    ELSE (IF subtable.Format = 1 THEN "ChainSubRuleSet"
          ELSE "ChainSubClassSet")

RuleField(subtable) ==
    IF subtable.kind = "ContextSubst"
    THEN (IF subtable.Format = 1 THEN "SubRule" ELSE "SubClassRule")
    ELSE (IF subtable.Format = 1 THEN "ChainSubRule" ELSE "ChainSubClassRule")

\* st.ExtSubTable if st is an ExtensionSubst, st otherwise
Unwrapped(subtable) ==
    IF subtable.kind = "ExtensionSubst" THEN subtable.ExtSubTable
    ELSE subtable

\* A rule set that is None has no rules to iterate over: the comprehension
\* of subst_lookup_records raises AttributeError
HasNullRuleSet(subtable) ==
    /\ IsContext(subtable)
    /\ subtable.Format \in {1, 2}
    /\ \E s \in DOMAIN subtable[RuleSetField(subtable)] :
           subtable[RuleSetField(subtable)][s] = None

\* subst_lookup_records, as the paths << rule set, rule, record >> of the
\* records in the order of the comprehension (<< 0, 0, record >> in format 3)
RecordPaths(subtable) ==
    IF ~IsContext(subtable) THEN {}
    ELSE IF subtable.Format = 3
    THEN { << 0, 0, l >> : l \in DOMAIN subtable.SubstLookupRecord }
    ELSE IF subtable.Format \in {1, 2}
    THEN LET sets == subtable[RuleSetField(subtable)]
             RulesOf(s) == Val(sets[s])[RuleField(subtable)]
         IN  UNION { UNION { { << s, r, l >> :
                                 l \in DOMAIN RulesOf(s)[r].SubstLookupRecord } :
                             r \in DOMAIN RulesOf(s) } :
                     s \in DOMAIN sets }
    ELSE {}

RecordAt(subtable, path) ==
    IF subtable.Format = 3 THEN subtable.SubstLookupRecord[path[3]]
    ELSE Val(subtable[RuleSetField(subtable)][path[1]])
             [RuleField(subtable)][path[2]].SubstLookupRecord[path[3]]

\* The order in which the records of subst_lookup_records are visited
PathBefore(p, q) ==
    \/ p[1] < q[1]
    \/ p[1] = q[1] /\ p[2] < q[2]
    \/ p[1] = q[1] /\ p[2] = q[2] /\ p[3] < q[3]

\* The records whose index index_mapping does not have: KeyError at the
\* first of them
UnmappedPaths(subtable, index_mapping) ==
    { p \in RecordPaths(subtable) :
        RecordAt(subtable, p).LookupListIndex \notin DOMAIN index_mapping }

\* What the body of the loop over the subtables raises for a subtable
RemapFailure(subtable, index_mapping) ==
    IF HasNullRuleSet(Unwrapped(subtable)) THEN "AttributeError"
    ELSE IF UnmappedPaths(Unwrapped(subtable), index_mapping) # {}
    THEN "KeyError"
    ELSE NoError

\* lr.LookupListIndex = index_mapping[lr.LookupListIndex], for the records
\* visited before the one that raises, if any
RemapContext(subtable, index_mapping) ==
    LET unmapped == UnmappedPaths(subtable, index_mapping)
        Visited(p) == \A q \in unmapped : PathBefore(p, q)
        Remapped(records, s, r) ==
            [ l \in DOMAIN records |->
                IF Visited(<< s, r, l >>)
                THEN [ records[l] EXCEPT
                         !.LookupListIndex = index_mapping[@] ]
                ELSE records[l] ]
    IN  IF ~IsContext(subtable) \/ HasNullRuleSet(subtable) THEN subtable
        ELSE IF subtable.Format = 3
        THEN [ subtable EXCEPT !.SubstLookupRecord = Remapped(@, 0, 0) ]
        ELSE IF subtable.Format \in {1, 2}
        THEN [ subtable EXCEPT
                 ![RuleSetField(subtable)] =
                    [ s \in DOMAIN @ |->
                        Some([ Val(@[s]) EXCEPT
                            ![RuleField(subtable)] =
                               [ r \in DOMAIN @ |->
                                   [ @[r] EXCEPT
                                       !.SubstLookupRecord =
                                           Remapped(@, s, r) ] ] ]) ] ]
        ELSE subtable

\* A variant of the loop body with a plausible slip: an Extension subtable
\* is not unwrapped.
RemapSubtable_wrapped(subtable, index_mapping) ==
    RemapContext(subtable, index_mapping)

\* if isinstance(st, otTables.ExtensionSubst): st = st.ExtSubTable
RemapSubtable(subtable, index_mapping) ==
    IF subtable.kind = "ExtensionSubst"
    THEN [ subtable EXCEPT
             !.ExtSubTable = RemapContext(@, index_mapping) ]
    ELSE RemapContext(subtable, index_mapping)

\* A variant of the loop with a plausible slip: the lookups of vertical
\* writing are not looked at, the appended lookups stay where they are.
insertion_position_unmoved(position, to_be_final_lookup_indices) == position

RECURSIVE insertion_position(_, _)
\* while insertion_position - 1 in to_be_final_lookup_indices
insertion_position(position, to_be_final_lookup_indices) ==
    IF (position - 1) \in to_be_final_lookup_indices
    THEN insertion_position(position - 1, to_be_final_lookup_indices)
    ELSE position

\* index_lookup: the old indices of the lookups, in their new order
index_lookup(lookup_count, position, initial_lookup_count) ==
    LET old == [ k \in 1..lookup_count |-> k - 1 ]
    IN  SubSeq(old, 1, position)
        \o SubSeq(old, initial_lookup_count + 1, lookup_count)
        \o SubSeq(old, position + 1, initial_lookup_count)

\* index_mapping: old index -> new index
index_mapping_of(order) ==
    [ old_index \in Range(order) |->
        (CHOOSE k \in DOMAIN order : order[k] = old_index) - 1 ]

\* "Remap lookup indices in lookups": the subtables are visited in the
\* order of the new lookup list, up to the first one that raises
RemapLookups(lookups, index_mapping) ==
    LET present == UNION { { << 0, k, j >> : j \in DOMAIN lookups[k].SubTable } :
                           k \in DOMAIN lookups }
        At(p) == lookups[p[2]].SubTable[p[3]]
        failing == { p \in present :
                       RemapFailure(At(p), index_mapping) # NoError }
        first == CHOOSE p \in failing :
                    \A q \in failing : q = p \/ PathBefore(p, q)
        Reached(p) == \A q \in failing : q = p \/ PathBefore(p, q)
    IN  [ lookups |->
            [ k \in DOMAIN lookups |->
                [ lookups[k] EXCEPT
                    !.SubTable =
                        [ j \in DOMAIN @ |->
                            IF Reached(<< 0, k, j >>)
                            THEN RemapSubtable(@[j], index_mapping)
                            ELSE @[j] ] ] ],
          error |-> IF failing = {} THEN NoError
                    ELSE RemapFailure(At(first), index_mapping) ]

\* feature.LookupListIndex = [index_mapping[lookup_index] for ...]
RemapFeature(feature, index_mapping) ==
    [ feature EXCEPT
        !.LookupListIndex = [ n \in DOMAIN @ |-> index_mapping[@[n]] ] ]

\* "Remap lookup indices in features": the features of the feature list,
\* then those of the feature variations, up to the first one that raises
RemapFeatures(g, index_mapping) ==
    LET records == g.FeatureList.FeatureRecord
        variations ==
            IF "FeatureVariations" \in DOMAIN g
            THEN Val(g.FeatureVariations).FeatureVariationRecord
            ELSE << >>
        Substitutions(v) ==
            variations[v].FeatureTableSubstitution.SubstitutionRecord
        paths ==
            { << 0, 0, k >> : k \in DOMAIN records }
            \cup UNION { { << v, 0, r >> : r \in DOMAIN Substitutions(v) } :
                         v \in DOMAIN variations }
        At(p) == IF p[1] = 0 THEN records[p[3]].Feature
                 ELSE Substitutions(p[1])[p[3]].Feature
        failing == { p \in paths :
                       \E n \in DOMAIN At(p).LookupListIndex :
                           At(p).LookupListIndex[n] \notin DOMAIN index_mapping }
        Visited(p) == \A q \in failing : PathBefore(p, q)
        Remapped(p) == IF Visited(p) THEN RemapFeature(At(p), index_mapping)
                       ELSE At(p)
        g1 == [ g EXCEPT
                  !.FeatureList.FeatureRecord =
                      [ k \in DOMAIN @ |->
                          [ @[k] EXCEPT
                              !.Feature = Remapped(<< 0, 0, k >>) ] ] ]
        g2 == IF variations = << >> THEN g1
              ELSE [ g1 EXCEPT
                  !.FeatureVariations =
                      Some([ Val(@) EXCEPT
                          !.FeatureVariationRecord =
                              [ v \in DOMAIN @ |->
                                  [ @[v] EXCEPT
                                      !.FeatureTableSubstitution
                                           .SubstitutionRecord =
                                          [ r \in DOMAIN @ |->
                                              [ @[r] EXCEPT
                                                  !.Feature =
                                                      Remapped(<< v, 0, r >>)
                                              ] ] ] ] ]) ]
    IN  IF "FeatureVariations" \in DOMAIN g /\ g.FeatureVariations = None
        THEN [ gsub |-> g, error |-> "AttributeError" ]
        ELSE [ gsub |-> g2,
               error |-> IF failing = {} THEN NoError ELSE "KeyError" ]

\* GSUBRuleAdder.reorder_lookups
reorder_lookups(st) ==
    LET g == st.gsub
        initial_lookup_count == st.ra.initial_lookup_count
        to_be_final_lookup_indices ==
            UNION { Range(g.FeatureList.FeatureRecord[f].Feature
                              .LookupListIndex) :
                    f \in { x \in DOMAIN g.FeatureList.FeatureRecord :
                              g.FeatureList.FeatureRecord[x].FeatureTag
                                  \in { "vert", "vrt2" } } }
        position ==
            insertion_position(initial_lookup_count,
                               to_be_final_lookup_indices)
        order == index_lookup(Len(g.LookupList.Lookup), position,
                              initial_lookup_count)
        index_mapping == index_mapping_of(order)
        moved == [ k \in DOMAIN order |-> g.LookupList.Lookup[order[k] + 1] ]
        InFeatures(lookups, features) ==
            [ st EXCEPT !.ra.lookup_adders = EmptyDict,
                        !.gsub = features.gsub,
                        !.error = features.error ]
        InLookups(remapped) ==
            IF remapped.error # NoError
            THEN [ st EXCEPT !.ra.lookup_adders = EmptyDict,
                             !.gsub.LookupList.Lookup = remapped.lookups,
                             !.error = remapped.error ]
            ELSE InFeatures(remapped.lookups,
                    RemapFeatures(
                        [ g EXCEPT !.LookupList.Lookup = remapped.lookups ],
                        index_mapping))
    IN  IF g.LookupList.LookupCount = initial_lookup_count THEN st
        ELSE IF position = initial_lookup_count THEN st
        ELSE InLookups(RemapLookups(moved, index_mapping))

----------------------------------------------------------------------------
(* main.py: undo_gsub_win7_fix *)

RemoveAt(seq, k) ==
    SubSeq(seq, 1, k - 1) \o SubSeq(seq, k + 1, Len(seq))

\* A variant of the loop with a plausible slip: the lookups of the feature
\* are not looked at.
IsWin7Fix_any_lookups(g, script_record) ==
    /\ script_record.ScriptTag = "hani"
    /\ script_record.Script.LangSysCount = 0
    /\ script_record.Script.DefaultLangSys # None
    /\ LET langsys == Val(script_record.Script.DefaultLangSys)
       IN  /\ langsys.LookupOrder = None
           /\ langsys.ReqFeatureIndex = 65535
           /\ langsys.FeatureCount = 1
           /\ LET feature_record ==
                      g.FeatureList.FeatureRecord[langsys.FeatureIndex[1] + 1]
              IN  /\ feature_record.FeatureTag = "aalt"
                  /\ feature_record.Feature.FeatureParams = None

\* The script record the loop of undo_gsub_win7_fix breaks at
IsWin7Fix(g, script_record) ==
    /\ script_record.ScriptTag = "hani"
    /\ script_record.Script.LangSysCount = 0
    /\ script_record.Script.DefaultLangSys # None
    /\ LET langsys == Val(script_record.Script.DefaultLangSys)
       IN  /\ langsys.LookupOrder = None
           /\ langsys.ReqFeatureIndex = 65535
           /\ langsys.FeatureCount = 1
           /\ LET feature_record ==
                      g.FeatureList.FeatureRecord[langsys.FeatureIndex[1] + 1]
              IN  /\ feature_record.FeatureTag = "aalt"
                  /\ feature_record.Feature.FeatureParams = None
                  /\ feature_record.Feature.LookupCount = 0

undo_gsub_win7_fix(g) ==
    LET Matches(script_record) == IsWin7Fix(g, script_record)
        script_index == FirstPos(g.ScriptList.ScriptRecord,
            { e \in Range(g.ScriptList.ScriptRecord) : Matches(e) })
        feature_index ==
            Val(g.ScriptList.ScriptRecord[script_index].Script.DefaultLangSys)
                .FeatureIndex[1]
        g1 == [ g EXCEPT
                  !.ScriptList.ScriptRecord = RemoveAt(@, script_index),
                  !.ScriptList.ScriptCount = @ - 1 ]
        paths == AllLangSys(g1)
        used == \E p \in DOMAIN paths :
                    feature_index \in Range(LangSysAt(g1, paths[p]).FeatureIndex)
    IN  IF script_index = 0 THEN g
        ELSE IF used THEN g1
        ELSE [ g1 EXCEPT
                 !.FeatureList.FeatureRecord = RemoveAt(@, feature_index + 1),
                 !.FeatureList.FeatureCount = @ - 1 ]

----------------------------------------------------------------------------
(* main.py: AddGlyphHandler and the substitution rules *)

\* The engine state of a handler, and the handler after an engine operation
EngineOf(h) ==
    [ gsub |-> h.ttf.GSUB, ra |-> Val(h.gsub_adder), log |-> h.log,
      error |-> h.error ]

WithEngine(h, st) ==
    [ h EXCEPT !.ttf.GSUB = st.gsub, !.gsub_adder = Some(st.ra),
               !.log = st.log, !.error = st.error ]

\* AddGlyphHandler._get_gsub_adder; the language systems are those given to
\* the program at startup.
AddGlyphHandler_get_gsub_adder(h, langsys_tags) ==
    IF h.gsub_adder # None THEN h
    ELSE WithEngine(h, GSUBRuleAdder_init(h.ttf.GSUB, h.log, langsys_tags))

AddGlyphHandler_add_gsub_rules(h, langsys_tags, feature_tag, target, replacements) ==
    LET AddRule(h1) ==
            IF h1.error # NoError THEN h1
            ELSE WithEngine(h1, GSUBRuleAdder_add_rule(
                                    EngineOf(h1), feature_tag, target,
                                    replacements))
    IN  AddRule(AddGlyphHandler_get_gsub_adder(h, langsys_tags))

\* A variant of the grouping with a plausible slip: a later alternate for
\* an input replaces the earlier ones.
AppendAlternate_replacing(by_input, input_name, alternate_name) ==
    LET IsInput(item) == item[1] = input_name
        k == FirstPos(by_input, { e \in Range(by_input) : IsInput(e) })
    IN  IF k = 0
        THEN Append(by_input, << input_name, << alternate_name >> >>)
        ELSE [ by_input EXCEPT ![k][2] = << alternate_name >> ]

\* alternate_by_input.setdefault(input_name, []).append(alternate_name), on
\* a dict kept as the sequence of its items in insertion order
AppendAlternate(by_input, input_name, alternate_name) ==
    LET IsInput(item) == item[1] = input_name
        k == FirstPos(by_input, { e \in Range(by_input) : IsInput(e) })
    IN  IF k = 0
        THEN Append(by_input, << input_name, << alternate_name >> >>)
        ELSE [ by_input EXCEPT ![k][2] = Append(@, alternate_name) ]

\* One turn of the loop of addglyph() over gspec_list: [h, by_input]
ResolvePair(h, by_input, pair) ==
    LET input == AddGlyphHandler_get_glyphname_from_gspec(h, pair[1])
        alternate == AddGlyphHandler_get_glyphname_from_gspec(input.h, pair[2])
    IN  IF input.h.error # NoError
        THEN [ h |-> input.h, by_input |-> by_input ]
        ELSE IF alternate.h.error # NoError
        THEN [ h |-> alternate.h, by_input |-> by_input ]
        ELSE [ h |-> alternate.h,
               by_input |-> AppendAlternate(by_input, input.glyphname,
                                            alternate.glyphname) ]

----------------------------------------------------------------------------
(* The fonts and the requests of the model *)

Notdef == << ".", "n", "o", "t", "d", "e", "f" >>
GlyphA == << "g", "A" >>
GlyphB == << "g", "B" >>
GlyphC == << "g", "C" >>
GlyphX == << "g", "X" >>
GlyphY == << "g", "Y" >>
GlyphZ == << "g", "Z" >>

GlyphOrder0 == << Notdef, GlyphA, GlyphB, GlyphC, GlyphX, GlyphY, GlyphZ >>

\* U+3402 and U+20000; the variation selector U+E0100
BmpChar == 13314
NonBmpChar == 131072
Selector == 917760
Codepoints == { BmpChar, NonBmpChar }

Sub4Options == { None, Some(EmptyDict), Some(BmpChar :> GlyphA) }

SubtOptions ==
    { None, Some(EmptyDict), Some(BmpChar :> GlyphA),
      Some(BmpChar :> GlyphA @@ NonBmpChar :> GlyphB) }

Sub14Options ==
    { None,
      Some(Selector :> << << BmpChar, None >> >>),
      Some(Selector :> << << BmpChar, Some(GlyphB) >> >>) }

LangSys(feature_indices) ==
    [ LookupOrder |-> None, ReqFeatureIndex |-> 65535,
      FeatureCount |-> Len(feature_indices), FeatureIndex |-> feature_indices ]

ScriptRecord(tag, default_langsys, langsys_records) ==
    [ ScriptTag |-> tag,
      Script |-> [ DefaultLangSys |-> default_langsys,
                   LangSysCount |-> Len(langsys_records),
                   LangSysRecord |-> langsys_records ] ]

FeatureRecord(tag, lookup_indices) ==
    [ FeatureTag |-> tag,
      Feature |-> [ FeatureParams |-> None,
                    LookupCount |-> Len(lookup_indices),
                    LookupListIndex |-> lookup_indices ] ]

GSUB(script_records, feature_records, lookups) ==
    [ ScriptList |-> [ ScriptCount |-> Len(script_records),
                       ScriptRecord |-> script_records ],
      FeatureList |-> [ FeatureCount |-> Len(feature_records),
                        FeatureRecord |-> feature_records ],
      LookupList |-> [ LookupCount |-> Len(lookups), Lookup |-> lookups ] ]

GsubEmpty == GSUB(<< >>, << >>, << >>)

\* The dummy script and feature of the versions before 3.0
GsubWin7Fix ==
    GSUB(<< ScriptRecord("hani", Some(LangSys(<< 0 >>)), << >>) >>,
         << FeatureRecord("aalt", << >>) >>, << >>)

\* One feature under one script, with the given lookups
GsubOneFeature(tag, lookups) ==
    GSUB(<< ScriptRecord("DFLT", Some(LangSys(<< 0 >>)), << >>) >>,
         << FeatureRecord(tag, [ k \in DOMAIN lookups |-> k - 1 ]) >>,
         lookups)

SingleAB == SingleSubst(GlyphA :> GlyphX @@ GlyphB :> GlyphY)

RunGsubOptions ==
    { GsubEmpty, GsubWin7Fix,
      GsubOneFeature("aalt", << Lookup(1, 0, None, << SingleAB >>) >>) }

Font(sub4, subt, sub14, gsub) ==
    [ sub4 |-> sub4, subt |-> subt, sub14 |-> sub14,
      glyphOrder |-> GlyphOrder0,
      glyf |-> [ g \in Range(GlyphOrder0) |-> "outline" ],
      hmtx |-> [ g \in Range(GlyphOrder0) |-> "metrics" ],
      vmtx |-> [ g \in Range(GlyphOrder0) |-> "metrics" ],
      GSUB |-> gsub ]

RunFonts ==
    { Font(sub4, subt, sub14, gsub) :
        sub4 \in Sub4Options, subt \in SubtOptions, sub14 \in Sub14Options,
        gsub \in RunGsubOptions }

SeqsUpTo(S, n) == UNION { [ 1..k -> S ] : k \in 0..n }
\* No two elements of the sequence of requests are the same
NoRepeat(seq) == \A a, b \in DOMAIN seq : a # b => seq[a] # seq[b]

\* No two elements of the sequence of (key, value) requests have the same key
NoRepeatedKey(seq) == \A a, b \in DOMAIN seq : a # b => seq[a][1] # seq[b][1]

CharsOptions ==
    { seq \in SeqsUpTo(Codepoints, MaxChars) : NoRepeat(seq) }

VsOptions ==
    { seq \in SeqsUpTo((Codepoints \X { Selector }) \X BOOLEAN, MaxVS) :
        NoRepeatedKey(seq) }

PairOptions ==
    { GidSpec(1), CpSpec(BmpChar, None) }
        \X { GidSpec(4), CpSpec(BmpChar, Some(Selector)),
             CpSpec(NonBmpChar, None) }

GspecOptions ==
    { << >> } \cup
    { << << "aalt", pairs >> >> :
        pairs \in SeqsUpTo(PairOptions, MaxPairs) \ { << >> } }

DefaultLanguageSystems == << << "DFLT", "dflt" >> >>

LanguageSystemsOptions ==
    { DefaultLanguageSystems, << << "hani", "dflt" >> >> }

----------------------------------------------------------------------------
(* addglyph(): one run of the program *)

SetHandler(h) ==
    /\ ttf' = h.ttf
    /\ font_vs_cmap' = h.font_vs_cmap
    /\ added_count' = h.added_count
    /\ gsub_adder' = h.gsub_adder
    /\ log' = h.log

inputs == << chars, vs, gsub_gspec, language_systems, rules >>

\* A variant with a plausible slip: the font is saved right after the
\* variation sequences, before the substitution rules.
AfterVs_early == "save"

\* What follows the loop over vs.items()
AfterVs == IF gsub_gspec # << >> THEN "undo" ELSE "save"
\* A variant with a plausible slip: the loop over the variation sequences
\* is left for after the rules, and never entered.
AfterChars_without_vs == AfterVs

\* What follows the loop over chars
AfterChars == IF vs # << >> THEN "vs" ELSE AfterVs

\* The state when addglyph() is entered, for the given fonts and language
\* systems
RunInitWith(fonts, language_systems_options) ==
    /\ ttf \in fonts
    /\ font0 = ttf
    /\ font_vs_cmap = None
    /\ added_count = 0
    /\ gsub_adder = None
    /\ log = << >>
    /\ pc = "load"
    /\ exception = NoError
    /\ ti = 0
    /\ i = 0
    /\ alternate_by_input = << >>
    /\ run = 1
    /\ chars \in CharsOptions
    /\ vs \in VsOptions
    /\ gsub_gspec \in GspecOptions
    /\ language_systems \in language_systems_options
    /\ rules = << >>

RunInit == RunInitWith(RunFonts, { DefaultLanguageSystems })

\* AddGlyphHandler.__init__
Construct ==
    /\ pc = "load"
    /\ LET r == FontCMap_init(ttf, log)
       IN  /\ ttf' = r.ttf
           /\ log' = r.log
           /\ pc' = IF ~r.ok THEN "aborted"
                    ELSE IF chars # << >> THEN "chars" ELSE AfterChars
           /\ exception' = IF r.ok THEN NoError ELSE "AssertionError"
    /\ i' = 1
    /\ UNCHANGED << font_vs_cmap, added_count, gsub_adder, ti,
                    alternate_by_input, run, inputs, font0 >>

\* handler.add_glyph(codepoint), for the next character
AddGlyph ==
    /\ pc = "chars"
    /\ SetHandler(AddGlyphHandler_add_glyph(Handler, chars[i]))
    /\ pc' = IF i < Len(chars) THEN "chars" ELSE AfterChars
    /\ i' = IF i < Len(chars) THEN i + 1 ELSE 1
    /\ UNCHANGED << exception, ti, alternate_by_input, run, inputs, font0 >>

\* handler.add_vs_glyph(base, selector, is_default), for the next sequence
AddVsGlyph ==
    /\ pc = "vs"
    /\ SetHandler(AddGlyphHandler_add_vs_glyph(
                      Handler, vs[i][1][1], vs[i][1][2], vs[i][2]))
    /\ pc' = IF i < Len(vs) THEN "vs" ELSE AfterVs
    /\ i' = IF i < Len(vs) THEN i + 1 ELSE 1
    /\ UNCHANGED << exception, ti, alternate_by_input, run, inputs, font0 >>

\* undo_gsub_win7_fix(handler.ttf), when there are substitution rules
UndoGsubWin7Fix ==
    /\ pc = "undo"
    /\ ttf' = [ ttf EXCEPT !.GSUB = undo_gsub_win7_fix(@) ]
    /\ pc' = "resolve"
    /\ ti' = 1
    /\ i' = 1
    /\ alternate_by_input' = << >>
    /\ UNCHANGED << font_vs_cmap, added_count, gsub_adder, log, exception,
                    run, inputs, font0 >>

\* The loop over gspec_list: the names of the next (input, alternate) pair
ResolveGspecs ==
    /\ pc = "resolve"
    /\ LET gspec_list == gsub_gspec[ti][2]
           r == ResolvePair(Handler, alternate_by_input, gspec_list[i])
           failed == r.h.error # NoError
       IN  /\ SetHandler(r.h)
           /\ alternate_by_input' = r.by_input
           /\ exception' = r.h.error
           /\ pc' = IF failed THEN "aborted"
                    ELSE IF i < Len(gspec_list) THEN "resolve" ELSE "rules"
           /\ i' = IF ~failed /\ i < Len(gspec_list) THEN i + 1 ELSE 1
    /\ UNCHANGED << ti, run, inputs, font0 >>

\* handler.add_gsub_rules(feature_tag, input_name, alternate_list), for the
\* next item of alternate_by_input
AddGsubRules ==
    /\ pc = "rules"
    /\ LET more == i < Len(alternate_by_input)
           last_tag == ti = Len(gsub_gspec)
           Added(h, failed) ==
               /\ SetHandler(h)
               /\ exception' = h.error
               /\ pc' = IF failed THEN "aborted"
                        ELSE IF more THEN "rules"
                        ELSE IF last_tag THEN "save" ELSE "resolve"
               /\ i' = IF ~failed /\ more THEN i + 1 ELSE 1
               /\ ti' = IF failed \/ more \/ last_tag THEN ti ELSE ti + 1
               /\ alternate_by_input' =
                      IF failed \/ more THEN alternate_by_input ELSE << >>
           AfterCall(h) == Added(h, h.error # NoError)
       IN  AfterCall(AddGlyphHandler_add_gsub_rules(
                         Handler, language_systems, gsub_gspec[ti][1],
                         alternate_by_input[i][1], alternate_by_input[i][2]))
    /\ UNCHANGED << run, inputs, font0 >>

\* handler.save(outfont)
Save ==
    /\ pc = "save"
    /\ log' = Append(log, Msg("glyphs added", added_count))
    /\ pc' = "saved"
    /\ UNCHANGED << ttf, font_vs_cmap, added_count, gsub_adder, exception,
                    ti, i, alternate_by_input, run, inputs, font0 >>

Next ==
    \/ Construct
    \/ AddGlyph
    \/ AddVsGlyph
    \/ UndoGsubWin7Fix
    \/ ResolveGspecs
    \/ AddGsubRules
    \/ Save

Spec == RunInit /\ [][Next]_vars

----------------------------------------------------------------------------
(* The run on a font that already has glyphs under the names that          *)
(* generate_glyphname produces: a glyph 'uni3402' that the BMP subtable    *)
(* maps but the full-repertoire subtable does not, or that no subtable     *)
(* maps, and a glyph 'u3402uE0100' that is in no variation sequence         *)

NamedGlyphs ==
    << generate_glyphname(BmpChar, None),
       generate_glyphname(BmpChar, Some(Selector)) >>

FontWithGlyphs(glyphs, sub4, subt, sub14, gsub) ==
    LET font == Font(sub4, subt, sub14, gsub)
    IN  [ font EXCEPT
            !.glyphOrder = @ \o glyphs,
            !.glyf = [ g \in Range(glyphs) |-> "outline" ] @@ @,
            !.hmtx = [ g \in Range(glyphs) |-> "metrics" ] @@ @,
            !.vmtx = [ g \in Range(glyphs) |-> "metrics" ] @@ @ ]

NamedFonts ==
    { FontWithGlyphs(NamedGlyphs, sub4, subt, sub14, gsub) :
        sub4 \in { None, Some(BmpChar :> NamedGlyphs[1]) },
        subt \in { Some(EmptyDict), Some(NonBmpChar :> GlyphB) },
        sub14 \in Sub14Options, gsub \in RunGsubOptions }

NamedInit == RunInitWith(NamedFonts, { DefaultLanguageSystems })

SpecNamed == NamedInit /\ [][Next]_vars

----------------------------------------------------------------------------
(* The legacy migrator on the shapes of GSUB it tells apart: a run with    *)
(* substitution rules and no characters or variation sequences, up to the  *)
(* call of undo_gsub_win7_fix                                               *)

NamedLangSys(feature_indices) ==
    << [ LangSysTag |-> "JAN ", LangSys |-> LangSys(feature_indices) ] >>

UndoScriptOptions ==
    { ScriptRecord("DFLT", Some(LangSys(<< 0 >>)), << >>),
      ScriptRecord("DFLT", Some(LangSys(<< 1 >>)), << >>),
      ScriptRecord("DFLT", None, NamedLangSys(<< 0 >>)),
      ScriptRecord("hani", Some(LangSys(<< 0 >>)), << >>),
      ScriptRecord("hani", Some(LangSys(<< 1 >>)), << >>),
      ScriptRecord("hani", Some(LangSys(<< 0, 1 >>)), << >>),
      ScriptRecord("hani", None, NamedLangSys(<< 0 >>)),
      ScriptRecord("hani", Some(LangSys(<< 0 >>)), NamedLangSys(<< 0 >>)),
      ScriptRecord("hani",
          Some([ LangSys(<< 0 >>) EXCEPT !.LookupOrder = Some("order") ]),
          << >>),
      ScriptRecord("hani",
          Some([ LangSys(<< 0 >>) EXCEPT !.ReqFeatureIndex = 1 ]), << >>) }

UndoFeatureOptions ==
    { FeatureRecord("aalt", << >>),
      FeatureRecord("aalt", << 0 >>),
      FeatureRecord("vert", << >>),
      FeatureRecord("vert", << 0 >>),
      [ FeatureRecord("aalt", << >>) EXCEPT
          !.Feature.FeatureParams = Some("params") ] }

MaxUndoScripts == 2

\* Two feature records, so that the feature indices 0 and 1 are those of
\* a record
UndoGsubOptions ==
    { GSUB(script_records, feature_records,
           << Lookup(1, 0, None, << SingleAB >>) >>) :
        script_records \in SeqsUpTo(UndoScriptOptions, MaxUndoScripts),
        feature_records \in [ 1..2 -> UndoFeatureOptions ] }

UndoFonts ==
    { Font(Some(BmpChar :> GlyphA), Some(BmpChar :> GlyphA), None, gsub) :
        gsub \in UndoGsubOptions }

\* The state when addglyph() is entered with rules only
UndoInit ==
    /\ ttf \in UndoFonts
    /\ font0 = ttf
    /\ font_vs_cmap = None
    /\ added_count = 0
    /\ gsub_adder = None
    /\ log = << >>
    /\ pc = "load"
    /\ exception = NoError
    /\ ti = 0
    /\ i = 0
    /\ alternate_by_input = << >>
    /\ run = 1
    /\ chars = << >>
    /\ vs = << >>
    /\ gsub_gspec \in GspecOptions \ { << >> }
    /\ language_systems = DefaultLanguageSystems
    /\ rules = << >>

UndoNext == Construct \/ UndoGsubWin7Fix

SpecUndo == UndoInit /\ [][UndoNext]_vars

----------------------------------------------------------------------------
(* addglyph() as a function of the font and the requests, and the runs     *)
(* that differ in the order of the requests                                 *)

RECURSIVE AddChars(_, _)
\* for char in chars: handler.add_glyph(ord(char))
AddChars(h, cs) ==
    IF cs = << >> THEN h
    ELSE AddChars(AddGlyphHandler_add_glyph(h, Head(cs)), Tail(cs))

RECURSIVE AddSequences(_, _)
\* for (base, selector), is_default in vs.items(): handler.add_vs_glyph(...)
AddSequences(h, sequences) ==
    IF sequences = << >> THEN h
    ELSE AddSequences(
             AddGlyphHandler_add_vs_glyph(h, Head(sequences)[1][1],
                                          Head(sequences)[1][2],
                                          Head(sequences)[2]),
             Tail(sequences))

RECURSIVE ResolvePairs(_, _, _)
\* The loop over gspec_list, left at the first exception: [h, by_input]
ResolvePairs(h, by_input, gspec_list) ==
    IF gspec_list = << >> \/ h.error # NoError
    THEN [ h |-> h, by_input |-> by_input ]
    ELSE LET r == ResolvePair(h, by_input, Head(gspec_list))
         IN  ResolvePairs(r.h, r.by_input, Tail(gspec_list))

RECURSIVE AddRules(_, _, _, _)
\* The loop over alternate_by_input.items(), left at the first exception
AddRules(h, langsys_tags, feature_tag, by_input) ==
    IF by_input = << >> \/ h.error # NoError THEN h
    ELSE AddRules(
             AddGlyphHandler_add_gsub_rules(h, langsys_tags, feature_tag,
                                            Head(by_input)[1],
                                            Head(by_input)[2]),
             langsys_tags, feature_tag, Tail(by_input))

RECURSIVE AddFeatures(_, _, _)
\* The loop over gsub_gspec.items(), left at the first exception
AddFeatures(h, langsys_tags, gspec) ==
    IF gspec = << >> \/ h.error # NoError THEN h
    ELSE LET r == ResolvePairs(h, << >>, Head(gspec)[2])
         IN  AddFeatures(
                 AddRules(r.h, langsys_tags, Head(gspec)[1], r.by_input),
                 langsys_tags, Tail(gspec))

\* addglyph(): the handler when the run is over; error names the exception
\* that ended it, if any
addglyph(font, cs, sequences, gspec, langsys_tags) ==
    LET c == FontCMap_init(font, << >>)
        h0 == [ ttf |-> c.ttf, font_vs_cmap |-> None, added_count |-> 0,
                gsub_adder |-> None, log |-> c.log, error |-> NoError ]
        h1 == AddSequences(AddChars(h0, cs), sequences)
        h2 == IF gspec # << >>
              THEN [ h1 EXCEPT !.ttf.GSUB = undo_gsub_win7_fix(@) ]
              ELSE h1
    IN  IF ~c.ok THEN [ h0 EXCEPT !.error = "AssertionError" ]
        ELSE AddFeatures(h2, langsys_tags, gspec)

AlternateAXY == AlternateSubst(GlyphA :> << GlyphX, GlyphY >>)

OrderFonts ==
    { Font(cmaps[1], cmaps[2], sub14, gsub) :
        cmaps \in { << Some(EmptyDict), None >>,
                    << Some(BmpChar :> GlyphA), Some(EmptyDict) >> },
        sub14 \in { None, Some(Selector :> << << BmpChar, None >> >>) },
        gsub \in { GsubEmpty,
                   GsubOneFeature("aalt", << Lookup(1, 0, None, << SingleAB >>) >>),
                   GsubOneFeature("aalt",
                                  << Lookup(3, 0, None, << AlternateAXY >>) >>) } }

OrderVsOptions ==
    { seq \in SeqsUpTo((Codepoints \X { Selector }) \X BOOLEAN, MaxOrderVS) :
        NoRepeatedKey(seq) }

\* Glyph 7 is the first glyph that a run adds to the fonts of the model.
OrderPairOptions ==
    { << GidSpec(1), GidSpec(4) >>, << GidSpec(1), GidSpec(6) >>,
      << GidSpec(1), GidSpec(7) >>, << CpSpec(BmpChar, None), GidSpec(6) >>,
      << GidSpec(1), CpSpec(NonBmpChar, None) >> }

OrderGspecOptions ==
    { << >> }
    \cup { << << "aalt", pairs >> >> :
             pairs \in SeqsUpTo(OrderPairOptions, MaxOrderPairs) \ { << >> } }
    \cup { << << tags[1], << p >> >>, << tags[2], << q >> >> >> :
             tags \in { << "aalt", "vert" >>, << "vert", "aalt" >> },
             p \in { << GidSpec(1), GidSpec(4) >> },
             q \in { << GidSpec(1), GidSpec(4) >>,
                     << GidSpec(1), GidSpec(6) >> } }

OrderInit ==
    /\ ttf \in OrderFonts
    /\ font0 = ttf
    /\ font_vs_cmap = None
    /\ added_count = 0
    /\ gsub_adder = None
    /\ log = << >>
    /\ pc = "load"
    /\ exception = NoError
    /\ ti = 0
    /\ i = 0
    /\ alternate_by_input = << >>
    /\ run = 1
    /\ chars \in CharsOptions
    /\ vs \in OrderVsOptions
    /\ gsub_gspec \in OrderGspecOptions
    /\ language_systems = DefaultLanguageSystems
    /\ rules = << >>

SpecOrder == OrderInit /\ [][Next]_vars

----------------------------------------------------------------------------
(* The rule engine of gsub.py on its own: handler.add_gsub_rules called for *)
(* a list of rules, on fonts whose GSUB has the shapes the engine sorts out *)

DefaultScript(feature_indices) ==
    ScriptRecord("DFLT", Some(LangSys(feature_indices)), << >>)

GsubOptions ==
    { GsubEmpty,
      GsubOneFeature("aalt", << >>),
      GsubOneFeature("aalt", << Lookup(1, 0, None, << SingleAB >>) >>),
      GsubOneFeature("aalt",
          << Lookup(1, UseMarkFilteringSet, Some(2), << SingleAB >>) >>),
      GsubOneFeature("aalt",
          << Lookup(1, 0, None,
                    << SingleSubst(GlyphA :> GlyphX),
                       SingleSubst(GlyphA :> GlyphY @@ GlyphB :> GlyphY) >>) >>),
      GsubOneFeature("aalt", << Lookup(3, 0, None, << AlternateAXY >>) >>),
      GsubOneFeature("aalt",
          << Lookup(3, 0, None,
                    << AlternateSubst(GlyphB :> << GlyphY >>),
                       AlternateSubst(GlyphA :> << GlyphZ >>
                                      @@ GlyphB :> << GlyphX >>) >>) >>),
      GsubOneFeature("aalt",
          << Lookup(7, 0, None, << ExtensionSubst(1, SingleAB) >>) >>),
      GsubOneFeature("aalt", << Lookup(5, 0, None, << >>) >>),
      GsubOneFeature("aalt",
          << Lookup(1, 0, None, << SingleAB >>),
             Lookup(3, 0, None, << AlternateAXY >>) >>),
      \* the target is mapped by two subtables, to different glyphs
      GsubOneFeature("aalt",
          << Lookup(1, 0, None,
                    << SingleSubst(GlyphA :> GlyphX),
                       SingleSubst(GlyphA :> GlyphZ) >>) >>),
      \* two features of the tag, the second one with several lookups
      GSUB(<< DefaultScript(<< 0 >>),
              ScriptRecord("hani", Some(LangSys(<< 1 >>)), << >>) >>,
           << FeatureRecord("aalt", << 0 >>),
              FeatureRecord("aalt", << 0, 1 >>) >>,
           << Lookup(1, 0, None, << SingleAB >>),
              Lookup(3, 0, None, << AlternateAXY >>) >>),
      \* the feature is visible from the script 'hani' only
      GSUB(<< DefaultScript(<< >>),
              ScriptRecord("hani", Some(LangSys(<< 0 >>)), << >>) >>,
           << FeatureRecord("aalt", << 0 >>) >>,
           << Lookup(1, 0, None, << SingleAB >>) >>),
      \* a named language system that lacks the feature of the default one
      GSUB(<< ScriptRecord("DFLT", Some(LangSys(<< 0 >>)),
                  << [ LangSysTag |-> "JAN ", LangSys |-> LangSys(<< >>) ] >>) >>,
           << FeatureRecord("aalt", << 0 >>) >>,
           << Lookup(3, 0, None, << AlternateAXY >>) >>),
      \* two features of different tags that share one lookup
      GSUB(<< DefaultScript(<< 0, 1 >>) >>,
           << FeatureRecord("aalt", << 0 >>), FeatureRecord("vert", << 0 >>) >>,
           << Lookup(1, 0, None, << SingleAB >>) >>) }

GsubFonts ==
    { Font(None, Some(EmptyDict), None, gsub) : gsub \in GsubOptions }

ReplacementsOptions ==
    SeqsUpTo({ GlyphX, GlyphZ }, MaxReplacements) \ { << >> }

RuleOptions ==
    { << feature_tag, target, replacements >> :
        feature_tag \in { "aalt", "vert" }, target \in { GlyphA, GlyphC },
        replacements \in ReplacementsOptions }

RulesOptions == SeqsUpTo(RuleOptions, MaxRules) \ { << >> }

\* The handler is constructed and the rules are about to be inserted.
GsubInit ==
    /\ ttf \in GsubFonts
    /\ font0 = ttf
    /\ font_vs_cmap = None
    /\ added_count = 0
    /\ gsub_adder = None
    /\ log = << >>
    /\ pc = "gsub"
    /\ exception = NoError
    /\ ti = 0
    /\ i = 1
    /\ alternate_by_input = << >>
    /\ run = 1
    /\ chars = << >>
    /\ vs = << >>
    /\ gsub_gspec = << >>
    /\ language_systems \in LanguageSystemsOptions
    /\ rules \in RulesOptions

\* handler.add_gsub_rules(feature_tag, target, replacements), for the next
\* rule
GsubAddRule ==
    /\ pc = "gsub"
    /\ LET Added(h) ==
               /\ SetHandler(h)
               /\ exception' = h.error
               /\ pc' = IF h.error # NoError THEN "aborted"
                        ELSE IF i < Len(rules) THEN "gsub" ELSE "done"
       IN  Added(AddGlyphHandler_add_gsub_rules(
                     Handler, language_systems, rules[i][1], rules[i][2],
                     rules[i][3]))
    /\ i' = i + 1
    /\ UNCHANGED << ti, alternate_by_input, run, inputs, font0 >>

GsubNext == GsubAddRule

SpecGsub == GsubInit /\ [][GsubNext]_vars

----------------------------------------------------------------------------
(* The rule engine constructed with the language systems the program is    *)
(* given at startup, on the script lists that _get_dflt_langsys tells      *)
(* apart                                                                    *)

MaxLangSys == 2

LangSysTagOptions ==
    { << "DFLT", "dflt" >>, << "hani", "dflt" >>, << "hani", "JAN " >>,
      << "kana", "dflt" >> }

LangSysTagsOptions == SeqsUpTo(LangSysTagOptions, MaxLangSys) \ { << >> }

LangSysScriptsOptions ==
    { << >>,
      << DefaultScript(<< >>) >>,
      << DefaultScript(<< 0 >>) >>,
      << ScriptRecord("DFLT", None, NamedLangSys(<< 0 >>)) >>,
      << ScriptRecord("hani", Some(LangSys(<< 0 >>)), << >>) >>,
      << ScriptRecord("hani", None, NamedLangSys(<< >>)) >>,
      << ScriptRecord("hani", Some(LangSys(<< >>)), << >>),
         ScriptRecord("kana", Some(LangSys(<< 0 >>)), << >>) >>,
      << DefaultScript(<< >>),
         ScriptRecord("hani", Some(LangSys(<< 0 >>)), NamedLangSys(<< >>)) >> }

LangSysFonts ==
    { Font(None, Some(EmptyDict), None,
           GSUB(script_records, << FeatureRecord("aalt", << 0 >>) >>,
                << Lookup(1, 0, None, << SingleAB >>) >>)) :
        script_records \in LangSysScriptsOptions }

LangSysRulesOptions ==
    SeqsUpTo({ << feature_tag, GlyphA, << GlyphX >> >> :
                 feature_tag \in { "aalt", "vert" } }, MaxRules) \ { << >> }

\* The handler is constructed and the rules are about to be inserted.
LangSysInit ==
    /\ ttf \in LangSysFonts
    /\ font0 = ttf
    /\ font_vs_cmap = None
    /\ added_count = 0
    /\ gsub_adder = None
    /\ log = << >>
    /\ pc = "gsub"
    /\ exception = NoError
    /\ ti = 0
    /\ i = 1
    /\ alternate_by_input = << >>
    /\ run = 1
    /\ chars = << >>
    /\ vs = << >>
    /\ gsub_gspec = << >>
    /\ language_systems \in LangSysTagsOptions
    /\ rules \in LangSysRulesOptions

SpecLangSys == LangSysInit /\ [][GsubNext]_vars

----------------------------------------------------------------------------
(* The rule engine followed by the lookup order normalizer: the rules are   *)
(* inserted, then reorder_lookups is called once                            *)

\* A context subtable with one rule (formats 1 and 2: in one rule set,
\* after a rule set that is None if null_first) that has the given records
ContextSubst(kind, format, null_first, records) ==
    LET rule == [ SubstLookupRecord |-> records ]
        base == [ kind |-> kind, Format |-> format ]
        sets(rule_field) ==
            (IF null_first THEN << None >> ELSE << >>)
            \o << Some((rule_field :> << rule >>)) >>
    IN  IF format = 3 THEN base @@ [ SubstLookupRecord |-> records ]
        ELSE base @@ (RuleSetField(base) :> sets(RuleField(base)))

ContextOptions ==
    { ContextSubst(kind, format, null_first,
                   << SubstLookupRecord(0, 0), SubstLookupRecord(1, 2) >>) :
        kind \in { "ContextSubst", "ChainContextSubst" },
        format \in {1, 2, 3}, null_first \in { FALSE } }
    \cup { ContextSubst("ContextSubst", 2, TRUE,
                        << SubstLookupRecord(0, 2) >>) }

\* The lookup type of a context subtable
ContextLookupType(subtable) == IF subtable.kind = "ContextSubst" THEN 5 ELSE 6

ContextLookups ==
    { Lookup(ContextLookupType(c), 1, None, << c >>) : c \in ContextOptions }
    \cup { Lookup(7, 1, None, << ExtensionSubst(ContextLookupType(c), c) >>) :
             c \in ContextOptions }

\* FeatureVariations with one substitution record, for the third feature
FeatureVariations(lookup_indices) ==
    [ FeatureVariationRecord |->
        << [ FeatureTableSubstitution |->
               [ SubstitutionRecord |->
                   << [ FeatureIndex |-> 2,
                        Feature |-> [ FeatureParams |-> None,
                                      LookupCount |-> Len(lookup_indices),
                                      LookupListIndex |-> lookup_indices ] ]
                   >> ] ] >> ]

\* GSUB tables with an 'aalt' lookup, a context lookup that refers to the
\* lookups 0 and 2, and 'vert' (and 'vrt2') lookups at the end of the list
\* (or, for a list that needs no reordering, before the context lookup)
ReorderGsubShapes ==
    { GSUB(<< DefaultScript(<< 0, 1, 2 >>) >>,
           << FeatureRecord("aalt", << 0 >>), FeatureRecord("calt", << 1 >>),
              FeatureRecord("vert", << 2 >>) >>,
           << Lookup(1, 0, None, << SingleAB >>), context,
              Lookup(1, 2, None, << SingleSubst(GlyphB :> GlyphZ) >>) >>) :
        context \in ContextLookups }
    \cup
    { GSUB(<< DefaultScript(<< 0, 1, 2, 3 >>) >>,
           << FeatureRecord("aalt", << 0 >>), FeatureRecord("calt", << 1 >>),
              FeatureRecord("vert", << 2 >>), FeatureRecord("vrt2", << 2, 3 >>) >>,
           << Lookup(1, 0, None, << SingleAB >>), context,
              Lookup(1, 2, None, << SingleSubst(GlyphB :> GlyphZ) >>),
              Lookup(3, 4, None, << AlternateAXY >>) >>) :
        context \in ContextLookups }
    \cup
    { GSUB(<< DefaultScript(<< 0, 1 >>) >>,
           << FeatureRecord("vert", << 0 >>), FeatureRecord("calt", << 1 >>) >>,
           << Lookup(1, 2, None, << SingleAB >>),
              Lookup(5, 1, None,
                     << ContextSubst("ContextSubst", 3, FALSE,
                                     << SubstLookupRecord(0, 0) >>) >>) >>) }
    \cup
    \* the last lookup is shared by 'salt' and 'vert'
    { GSUB(<< DefaultScript(<< 0, 1 >>) >>,
           << FeatureRecord("salt", << 0 >>), FeatureRecord("vert", << 0 >>) >>,
           << Lookup(1, 2, None, << SingleAB >>) >>) }

\* hasattr(table, "FeatureVariations") is false, or the attribute is None,
\* or it is a FeatureVariations table
ReorderGsubOptions ==
    ReorderGsubShapes
    \cup { [ FeatureVariations |-> None ] @@ g : g \in ReorderGsubShapes }
    \cup { [ FeatureVariations |->
                Some(FeatureVariations(<< Len(g.LookupList.Lookup) - 1, 0 >>))
            ] @@ g :
             g \in ReorderGsubShapes }

ReorderFonts ==
    { Font(None, Some(EmptyDict), None, gsub) : gsub \in ReorderGsubOptions }

ReorderRuleOptions ==
    { << feature_tag, GlyphA, replacements >> :
        feature_tag \in { "aalt", "salt", "vert" },
        replacements \in { << GlyphX >>, << GlyphX, GlyphZ >> } }

ReorderInit ==
    /\ ttf \in ReorderFonts
    /\ font0 = ttf
    /\ font_vs_cmap = None
    /\ added_count = 0
    /\ gsub_adder = None
    /\ log = << >>
    /\ pc = "gsub"
    /\ exception = NoError
    /\ ti = 0
    /\ i = 1
    /\ alternate_by_input = << >>
    /\ run = 1
    /\ chars = << >>
    /\ vs = << >>
    /\ gsub_gspec = << >>
    /\ language_systems = DefaultLanguageSystems
    /\ rules \in SeqsUpTo(ReorderRuleOptions, MaxRules) \ { << >> }

\* gsub_adder.reorder_lookups(), once the rules are inserted
ReorderLookups ==
    /\ pc = "done"
    /\ gsub_adder # None
    /\ LET Reordered(h) ==
               /\ SetHandler(h)
               /\ exception' = h.error
               /\ pc' = IF h.error # NoError THEN "aborted" ELSE "reordered"
       IN  Reordered(WithEngine(Handler, reorder_lookups(EngineOf(Handler))))
    /\ UNCHANGED << i, ti, alternate_by_input, run, inputs, font0 >>

ReorderNext == GsubAddRule \/ ReorderLookups

SpecReorder == ReorderInit /\ [][ReorderNext]_vars

\* gsub_adder.reorder_lookups(), called once more on the same rule adder
ReorderLookupsAgain ==
    /\ pc = "reordered"
    /\ gsub_adder # None
    /\ LET Reordered(h) ==
               /\ SetHandler(h)
               /\ exception' = h.error
               /\ pc' = IF h.error # NoError THEN "aborted"
                        ELSE "reordered again"
       IN  Reordered(WithEngine(Handler, reorder_lookups(EngineOf(Handler))))
    /\ UNCHANGED << i, ti, alternate_by_input, run, inputs, font0 >>

ReorderAgainNext == GsubAddRule \/ ReorderLookups \/ ReorderLookupsAgain

SpecReorderAgain == ReorderInit /\ [][ReorderAgainNext]_vars

----------------------------------------------------------------------------
(* The run with the lookup order normalizer: reorder_lookups has no call   *)
(* site in the sources at hand, and is called here where the spec puts it, *)
(* after the last rule and before the save                                  *)

\* A feature for vertical writing with a lookup of its own
GsubVert ==
    GSUB(<< DefaultScript(<< 0 >>) >>,
         << FeatureRecord("vert", << 0 >>) >>,
         << Lookup(1, 0, None, << SingleAB >>) >>)

\* The same with the dummy script and feature of the versions before 3.0
GsubVertWin7Fix ==
    GSUB(<< DefaultScript(<< 0 >>),
            ScriptRecord("hani", Some(LangSys(<< 1 >>)), << >>) >>,
         << FeatureRecord("vert", << 0 >>), FeatureRecord("aalt", << >>) >>,
         << Lookup(1, 0, None, << SingleAB >>) >>)

NormalizedFonts ==
    { Font(Some(BmpChar :> GlyphA), subt, sub14, gsub) :
        subt \in { None, Some(EmptyDict) }, sub14 \in Sub14Options,
        gsub \in RunGsubOptions \cup { GsubVert, GsubVertWin7Fix } }

NormalizedInit == RunInitWith(NormalizedFonts, { DefaultLanguageSystems })

\* gsub_adder.reorder_lookups(), in a run that inserted rules
NormalizeLookups ==
    /\ pc = "save"
    /\ gsub_adder # None
    /\ LET Reordered(h) ==
               /\ SetHandler(h)
               /\ exception' = h.error
               /\ pc' = IF h.error # NoError THEN "aborted" ELSE "normalized"
       IN  Reordered(WithEngine(Handler, reorder_lookups(EngineOf(Handler))))
    /\ UNCHANGED << i, ti, alternate_by_input, run, inputs, font0 >>

\* handler.save(outfont), in a run that inserted rules
SaveNormalized ==
    /\ pc = "normalized"
    /\ log' = Append(log, Msg("glyphs added", added_count))
    /\ pc' = "saved"
    /\ UNCHANGED << ttf, font_vs_cmap, added_count, gsub_adder, exception,
                    ti, i, alternate_by_input, run, inputs, font0 >>

\* handler.save(outfont), in a run without rules
SaveUntouched == gsub_adder = None /\ Save

NormalizedNext ==
    \/ Construct
    \/ AddGlyph
    \/ AddVsGlyph
    \/ UndoGsubWin7Fix
    \/ ResolveGspecs
    \/ AddGsubRules
    \/ NormalizeLookups
    \/ SaveNormalized
    \/ SaveUntouched

SpecNormalized == NormalizedInit /\ [][NormalizedNext]_vars

----------------------------------------------------------------------------
(* The program run a second time, on the font the first run saved          *)

\* AddGlyphHandler.__init__ of the second run: TTFont(fontfile) reads the
\* tables as the first run wrote them; the handler starts afresh.
Rerun ==
    /\ pc = "saved"
    /\ run = 1
    /\ run' = 2
    /\ font0' = ttf
    /\ font_vs_cmap' = None
    /\ gsub_adder' = None
    /\ added_count' = 0
    /\ log' = << >>
    /\ pc' = "load"
    /\ ti' = 0
    /\ i' = 0
    /\ alternate_by_input' = << >>
    /\ UNCHANGED << ttf, exception, inputs >>

TwiceFonts ==
    RunFonts
    \cup { Font(Some(EmptyDict), None, None, gsub) : gsub \in GsubOptions }

TwiceInit == RunInitWith(TwiceFonts, LanguageSystemsOptions)

TwiceNext ==
    \/ Next
    \/ Rerun

SpecTwice == TwiceInit /\ [][TwiceNext]_vars

----------------------------------------------------------------------------
(* The character map: BMP-only subtable (format 4), full-repertoire         *)
(* subtable (format 12)                                                     *)

\* The full-repertoire map the handler works on once it is constructed
LoadedFull ==
    IF font0.subt = None THEN Val(font0.sub4) ELSE Val(font0.subt)

Constructed == pc \notin {"load", "aborted"} \/ (pc = "aborted" /\ ttf.subt # None)

\* The code points to which the run has added a mapping so far
AddedCodepoints == DOMAIN Val(ttf.subt) \ DOMAIN LoadedFull

Uni3402 == << "u", "n", "i", "3", "4", "0", "2" >>
U20000 == << "u", "2", "0", "0", "0", "0" >>
U3402uE0100 ==
    << "u", "3", "4", "0", "2", "u", "E", "0", "1", "0", "0" >>
U20000uE0100 ==
    << "u", "2", "0", "0", "0", "0", "u", "E", "0", "1", "0", "0" >>

\* The glyph names the program gives to the code points of the model
NameOfChar(c) == IF c = BmpChar THEN Uni3402 ELSE U20000
NameOfSequence(base) == IF base = BmpChar THEN U3402uE0100 ELSE U20000uE0100

BmpAgreesWithFull(c) ==
    /\ c \in DOMAIN Val(ttf.sub4)
    /\ Val(ttf.sub4)[c] = Val(ttf.subt)[c]

\* C2, as stated: for any starting font, every code point below 0x10000 to
\* which the run added a mapping is mapped by the BMP-only subtable, when it
\* exists, to the same glyph as by the full-repertoire subtable.
C2_CmapConsistencyAnyFont ==
    (Constructed /\ ttf.sub4 # None) =>
        \A c \in AddedCodepoints : c < BMPLimit => BmpAgreesWithFull(c)

\* C2, amended: the same, for the code points that the BMP-only subtable of
\* the loaded font did not map already (an entry the BMP-only subtable had
\* before the run is kept, whatever the full-repertoire subtable gets).
C2_CmapConsistency ==
    (Constructed /\ ttf.sub4 # None) =>
        \A c \in AddedCodepoints :
            (c < BMPLimit /\ c \notin DOMAIN Val(font0.sub4))
                => BmpAgreesWithFull(c)

C2_Witness ==
    /\ pc = "saved"
    /\ ttf.sub4 # None
    /\ BmpChar \in AddedCodepoints
    /\ BmpChar \notin DOMAIN Val(font0.sub4)
    /\ Val(ttf.sub4)[BmpChar] = Uni3402

BmpCodepoints(full) == { c \in DOMAIN full : c < BMPLimit }

PresenceInvariant ==
    ttf.sub4 # None => BmpCodepoints(Val(ttf.subt)) \subseteq DOMAIN Val(ttf.sub4)

NoUsableCmapIsFatal ==
    (font0.sub4 = None /\ font0.subt = None /\ pc # "load")
        => (pc = "aborted" /\ exception = "AssertionError" /\ ttf = font0)

\* C3, as stated: once the handler is constructed, and after any sequence
\* of adds, every code point below 0x10000 of the full-repertoire map is in
\* the BMP-only map when that subtable exists; construction fails when the
\* font has neither subtable.
C3_PresenceAnyFont ==
    /\ Constructed => PresenceInvariant
    /\ NoUsableCmapIsFatal

\* C3, amended: the same, for a font that is loaded without a
\* full-repertoire subtable or whose subtables satisfy the invariant when it
\* is loaded (the adds preserve the invariant, construction does not
\* establish it for a font that has both subtables).
C3_Presence ==
    /\ (/\ Constructed
        /\ \/ font0.subt = None
           \/ font0.sub4 = None
           \/ BmpCodepoints(Val(font0.subt)) \subseteq DOMAIN Val(font0.sub4))
          => PresenceInvariant
    /\ NoUsableCmapIsFatal

C3_Witness ==
    /\ pc = "saved"
    /\ font0.subt = None
    /\ ttf.sub4 # None
    /\ BmpChar \in AddedCodepoints
    /\ BmpChar \in DOMAIN Val(ttf.sub4)

C3_WitnessFatal ==
    /\ pc = "aborted"
    /\ font0.sub4 = None
    /\ font0.subt = None

\* C4: a step of the run that calls FontCMap.add(c, g) sets the
\* full-repertoire entry of c to g and leaves every other full-repertoire
\* entry unchanged; it inserts c -> g in the BMP-only subtable only when
\* c < 0x10000, the subtable exists and did not map c, and it leaves every
\* entry the BMP-only subtable had unchanged.
C4_AddFrame ==
    [][ (pc \in {"chars", "vs", "resolve"}) =>
        LET full == Val(ttf.subt)
            full_ == Val(ttf'.subt)
            added == DOMAIN full_ \ DOMAIN full
        IN  /\ \A c \in DOMAIN full : c \in DOMAIN full_ /\ full_[c] = full[c]
            /\ \A c \in added : full_[c] = NameOfChar(c)
            /\ (pc = "chars" /\ chars[i] \notin DOMAIN full)
                   => added = { chars[i] }
            /\ (ttf.sub4 = None) = (ttf'.sub4 = None)
            /\ ttf.sub4 # None =>
                 LET bmp == Val(ttf.sub4)
                     bmp_ == Val(ttf'.sub4)
                 IN  /\ \A c \in DOMAIN bmp :
                            c \in DOMAIN bmp_ /\ bmp_[c] = bmp[c]
                     /\ DOMAIN bmp_ \ DOMAIN bmp =
                            { c \in added : c < BMPLimit /\ c \notin DOMAIN bmp }
                     /\ \A c \in DOMAIN bmp_ \ DOMAIN bmp : bmp_[c] = full_[c]
      ]_vars

\* The BMP-only subtable kept its own entry for a code point the run added
\* to the full-repertoire subtable, and a non-BMP code point was added too.
C4_Witness ==
    /\ pc = "saved"
    /\ ttf.sub4 # None
    /\ BmpChar \in AddedCodepoints
    /\ Val(ttf.sub4)[BmpChar] = GlyphA
    /\ Val(ttf.subt)[BmpChar] = Uni3402
    /\ NonBmpChar \in AddedCodepoints
    /\ NonBmpChar \notin DOMAIN Val(ttf.sub4)

----------------------------------------------------------------------------
(* Variation sequences: the variation-selector subtable (format 14)         *)

\* The (base, glyph) entries of a selector, << >> without subtable or list
UvList(t, selector) ==
    IF t.sub14 = None THEN << >>
    ELSE IF selector \in DOMAIN Val(t.sub14) THEN Val(t.sub14)[selector]
    ELSE << >>

Selectors(t) == IF t.sub14 = None THEN {} ELSE DOMAIN Val(t.sub14)

\* C5: an entry that add_vs_glyph appends stores a glyph name, never None:
\* for a default sequence the glyph the full-repertoire map gives for the
\* base (which has a glyph by then), for a non-default sequence the blank
\* glyph named from (base, selector); the list only grows at its end.
C5_EntryIsConcrete ==
    [][ pc = "vs" =>
        LET base == vs[i][1][1]
            selector == vs[i][1][2]
            is_default == vs[i][2]
            before == UvList(ttf, selector)
            after == UvList(ttf', selector)
        IN  /\ ttf'.sub14 # None
            /\ Len(after) \in { Len(before), Len(before) + 1 }
            /\ SubSeq(after, 1, Len(before)) = before
            /\ Len(after) = Len(before) + 1 =>
                 LET entry == after[Len(after)]
                 IN  /\ entry[1] = base
                     /\ entry[2] # None
                     /\ is_default =>
                          /\ base \in DOMAIN Val(ttf'.subt)
                          /\ Val(entry[2]) = Val(ttf'.subt)[base]
                          /\ Val(entry[2]) \in DOMAIN ttf'.glyf
                     /\ ~is_default =>
                          /\ Val(entry[2]) = NameOfSequence(base)
                          /\ ttf'.glyf[Val(entry[2])] = "blank"
                          /\ Val(entry[2]) \notin DOMAIN ttf.glyf
      ]_vars

\* A default sequence stored on a font that had neither the base glyph nor
\* a variation-selector subtable
C5_Witness ==
    /\ pc = "saved"
    /\ font0.sub14 = None
    /\ NonBmpChar \notin DOMAIN LoadedFull
    /\ UvList(ttf, Selector) = << << NonBmpChar, Some(U20000) >> >>

HasSentinel(t) ==
    \E selector \in Selectors(t) :
        \E k \in DOMAIN UvList(t, selector) : UvList(t, selector)[k][2] = None

\* C6: after a run that processed at least one variation sequence, no entry
\* of the variation-selector subtable stores None; every entry (base, None)
\* the font had now stores the glyph the full-repertoire map gives for base.
C6_SentinelRepair ==
    (pc = "saved" /\ vs # << >>) =>
        /\ ~HasSentinel(ttf)
        /\ \A selector \in Selectors(font0) :
             \A k \in DOMAIN UvList(font0, selector) :
                LET old == UvList(font0, selector)[k]
                IN  old[2] = None =>
                      /\ old[1] \in DOMAIN Val(ttf.subt)
                      /\ UvList(ttf, selector)[k] =
                             << old[1], Some(Val(ttf.subt)[old[1]]) >>

UniquePerSequence(t) ==
    \A selector \in Selectors(t) :
        \A a, b \in DOMAIN UvList(t, selector) :
            a # b => UvList(t, selector)[a][1] # UvList(t, selector)[b][1]

\* C7: the variation-selector subtable of a font that holds at most one
\* entry per (base, selector), entries storing None included, still holds
\* at most one entry per (base, selector) after any number of add_vs_glyph
\* calls; for a sequence that is present, nothing is appended and already
\* in font is logged.
C7_Uniqueness ==
    [][ /\ UniquePerSequence(font0) => UniquePerSequence(ttf')
        /\ (/\ pc = "vs"
            /\ \E k \in DOMAIN UvList(ttf, vs[i][1][2]) :
                   UvList(ttf, vs[i][1][2])[k][1] = vs[i][1][1])
              => /\ ttf'.sub14 = ttf.sub14
                 /\ log'[Len(log')] =
                        Msg("already in font",
                            << "vs", vs[i][1][1], vs[i][1][2] >>)
      ]_vars

----------------------------------------------------------------------------
(* Substitution lookups: the upgrade and the merge *)

LookupAt(t, lookup_index) == t.GSUB.LookupList.Lookup[lookup_index + 1]

\* The lookups a rule of the tag is inserted into by the step: the single
\* lookup of each feature record the engine holds for the tag after the
\* step, among the feature records and lookups the font had before it.
LookupsOfTag(feature_tag) ==
    LET records == ttf.GSUB.FeatureList.FeatureRecord
        held == Val(gsub_adder').feature_indices_by_tag[feature_tag]
    IN  { records[f + 1].Feature.LookupListIndex[1] :
            f \in { x \in held :
                      /\ x < Len(records)
                      /\ Len(records[x + 1].Feature.LookupListIndex) = 1 } }

\* Position of the first subtable that has the target, 0 if none has
FirstSubtableWith(subtables, entries, target) ==
    IF \A k \in DOMAIN subtables : target \notin DOMAIN subtables[k][entries]
    THEN 0
    ELSE CHOOSE k \in DOMAIN subtables :
            /\ target \in DOMAIN subtables[k][entries]
            /\ \A j \in 1..(k - 1) :
                   target \notin DOMAIN subtables[j][entries]

\* The mapping of a Single-Substitution lookup: for each target, the entry
\* of the first subtable that has it
SingleMapping(lookup) ==
    LET targets == UNION { DOMAIN lookup.SubTable[k].mapping :
                             k \in DOMAIN lookup.SubTable }
    IN  [ t \in targets |->
            lookup.SubTable[FirstSubtableWith(lookup.SubTable, "mapping", t)]
                .mapping[t] ]

FirstIndex(seq, e) ==
    CHOOSE k \in DOMAIN seq : seq[k] = e /\ \A j \in 1..(k - 1) : seq[j] # e

\* result is left followed by the elements of right that are not in left,
\* each once, in the order of their first occurrence in right
IsMergeOf(result, left, right) ==
    /\ Len(result) >= Len(left)
    /\ SubSeq(result, 1, Len(left)) = left
    /\ LET new == SubSeq(result, Len(left) + 1, Len(result))
       IN  /\ Range(new) = Range(right) \ Range(left)
           /\ \A a, b \in DOMAIN new :
                  a < b => /\ new[a] # new[b]
                           /\ FirstIndex(right, new[a]) < FirstIndex(right, new[b])

\* The single representation cannot hold the rule on top of the mapping
SingleCannotHold(mapping, target, replacements) ==
    \/ Cardinality(Range(replacements)) > 1
    \/ /\ target \in DOMAIN mapping
       /\ Range(replacements) # { mapping[target] }

\* C8: when a rule (tag, A, R) that the single representation cannot hold
\* is inserted into a Single-Substitution lookup with mapping M, flags F
\* and mark-filtering set S, the lookup at the same index becomes an
\* Alternate-Substitution lookup of one subtable with the alternates [M[t]]
\* for every target t other than A, and for A the list [M[A]] (empty if A
\* is not in M) merged with R; its flags are F and its mark-filtering set
\* is S. A Single-Substitution lookup becomes nothing else.
C8_UpgradeCorrect ==
    [][ (pc = "gsub" /\ exception' = NoError) =>
        LET feature_tag == rules[i][1]
            A == rules[i][2]
            R == rules[i][3]
        IN  \A lookup_index \in 0..(Len(ttf.GSUB.LookupList.Lookup) - 1) :
              LET old == LookupAt(ttf, lookup_index)
                  new == LookupAt(ttf', lookup_index)
                  M == SingleMapping(old)
                  alternates == new.SubTable[1].alternates
              IN  old.LookupType = 1 =>
                    /\ (/\ lookup_index \in LookupsOfTag(feature_tag)
                        /\ SingleCannotHold(M, A, R))
                           => new.LookupType = 3
                    /\ new.LookupType \in {1, 3}
                    /\ new.LookupType = 3 =>
                         /\ lookup_index \in LookupsOfTag(feature_tag)
                         /\ new.LookupFlag = old.LookupFlag
                         /\ new.MarkFilteringSet = old.MarkFilteringSet
                         /\ new.SubTableCount = 1
                         /\ Len(new.SubTable) = 1
                         /\ new.SubTable[1].kind = "AlternateSubst"
                         /\ DOMAIN alternates = DOMAIN M \cup {A}
                         /\ \A t \in DOMAIN M \ {A} :
                                alternates[t] = << M[t] >>
                         /\ IsMergeOf(alternates[A],
                                      IF A \in DOMAIN M THEN << M[A] >>
                                      ELSE << >>,
                                      R)
      ]_vars

\* {A: X, B: Y} with flags and a mark-filtering set, then (aalt, A, [X, Z])
C8_Witness ==
    /\ Len(font0.GSUB.LookupList.Lookup) = 1
    /\ LookupAt(font0, 0) =
           Lookup(1, UseMarkFilteringSet, Some(2), << SingleAB >>)
    /\ LookupAt(ttf, 0) =
           Lookup(3, UseMarkFilteringSet, Some(2),
                  << AlternateSubst(GlyphA :> << GlyphX, GlyphZ >>
                                    @@ GlyphB :> << GlyphY >>) >>)
    /\ rules[1] = << "aalt", GlyphA, << GlyphX, GlyphZ >> >>

RuleMessages(messages) ==
    SelectSeq(messages, LAMBDA m : m.kind \in {"added", "already in font"})

\* C9: when replacements R are added for a target that has the alternate
\* list L in an Alternate-Substitution lookup, the list becomes L followed
\* by the elements of R that are not in L, each once and in the order of
\* their first occurrence; nothing else of the lookup changes; the rule is
\* logged as added if the list changed and as already in font if not (once
\* for each feature record of the tag, each with its own lookup).
C9_AlternateMerge ==
    [][ (pc = "gsub" /\ exception' = NoError) =>
        LET feature_tag == rules[i][1]
            target == rules[i][2]
            R == rules[i][3]
        IN  \A lookup_index \in LookupsOfTag(feature_tag) :
              LET old == LookupAt(ttf, lookup_index)
                  new == LookupAt(ttf', lookup_index)
                  k == FirstSubtableWith(old.SubTable, "alternates", target)
                  L == old.SubTable[k].alternates[target]
                  merged == new.SubTable[k].alternates[target]
                  said == RuleMessages(SubSeq(log', Len(log) + 1, Len(log')))
                  \* the message names the tag the lookup was first used for
                  Reports(m) ==
                      /\ m.kind =
                            IF merged # L THEN "added" ELSE "already in font"
                      /\ m.what[1] = "rule"
                      /\ m.what[3] = target
                      /\ m.what[4] = merged
              IN  (old.LookupType = 3 /\ k # 0) =>
                    /\ IsMergeOf(merged, L, R)
                    /\ new = [ old EXCEPT
                                 !.SubTable[k].alternates[target] = merged ]
                    /\ \E n \in DOMAIN said : Reports(said[n])
                    /\ Cardinality(
                           Val(gsub_adder').feature_indices_by_tag[feature_tag])
                           = 1
                         => (Len(said) = 1 /\ Reports(said[1]))
      ]_vars

\* [X, Y] for A, then (aalt, A, [Z, X]): Z is appended, X is not repeated
C9_Witness ==
    /\ Len(font0.GSUB.LookupList.Lookup) = 1
    /\ LookupAt(font0, 0) = Lookup(3, 0, None, << AlternateAXY >>)
    /\ rules[1] = << "aalt", GlyphA, << GlyphZ, GlyphX >> >>
    /\ i = 2
    /\ LookupAt(ttf, 0).SubTable[1].alternates[GlyphA] =
           << GlyphX, GlyphY, GlyphZ >>
    /\ log[Len(log)].kind = "added"

----------------------------------------------------------------------------
(* Idempotence of a run *)

RECURSIVE SumLen(_)
SumLen(seqs) ==
    IF seqs = << >> THEN 0 ELSE Len(Head(seqs)) + SumLen(Tail(seqs))

RECURSIVE SumUvLists(_, _)
SumUvLists(t, selectors) ==
    IF selectors = {} THEN 0
    ELSE LET s == CHOOSE x \in selectors : TRUE
         IN  Len(UvList(t, s)) + SumUvLists(t, selectors \ {s})

CmapSize(sub) == IF sub = None THEN 0 ELSE Cardinality(DOMAIN Val(sub))

\* The numbers of glyphs, cmap entries, variation-sequence entries, feature
\* records, lookups and subtables of a font
Counts(t) ==
    [ glyphs |-> Len(t.glyphOrder),
      outlines |-> Cardinality(DOMAIN t.glyf),
      cmap |-> CmapSize(t.sub4) + CmapSize(t.subt),
      sequences |-> SumUvLists(t, Selectors(t)),
      features |-> Len(t.GSUB.FeatureList.FeatureRecord),
      lookups |-> Len(t.GSUB.LookupList.Lookup),
      subtables |->
          SumLen([ k \in DOMAIN t.GSUB.LookupList.Lookup |->
                       t.GSUB.LookupList.Lookup[k].SubTable ]) ]

IsRuleMessage(m) ==
    /\ m.kind = "already in font"
    /\ m.what[1] = "rule"

----------------------------------------------------------------------------
(* Order independence *)

\* The orders in which the items of a sequence can be taken
Orders(seq) ==
    { [ k \in DOMAIN seq |-> seq[p[k]] ] :
        p \in { q \in [ DOMAIN seq -> DOMAIN seq ] :
                  \A a, b \in DOMAIN seq : a # b => q[a] # q[b] } }

\* The orders of the feature tags, with the pairs of each tag in any order
GspecOrders(gspec) ==
    UNION { { g \in [ DOMAIN tags ->
                        UNION { { << tags[k][1], pairs >> :
                                    pairs \in Orders(tags[k][2]) } :
                                k \in DOMAIN tags } ] :
                \A k \in DOMAIN tags : g[k][1] = tags[k][1] } :
            tags \in Orders(gspec) }

\* The variation sequences of a font, as a set
SequencesOf(t) ==
    UNION { { << selector, UvList(t, selector)[k] >> :
                k \in DOMAIN UvList(t, selector) } :
            selector \in Selectors(t) }

\* What a subtable substitutes: the (target, alternates) pairs
EntriesOf(subtable) ==
    IF subtable.kind = "SingleSubst"
    THEN { << t, << subtable.mapping[t] >> >> : t \in DOMAIN subtable.mapping }
    ELSE IF subtable.kind = "AlternateSubst"
    THEN { << t, subtable.alternates[t] >> : t \in DOMAIN subtable.alternates }
    ELSE {}

\* The substitutions of a font: (feature tag, target, alternates), the
\* alternates as the list they are or as the set of its elements
SubstitutionsOf(t, in_order) ==
    LET records == t.GSUB.FeatureList.FeatureRecord
        lookups == t.GSUB.LookupList.Lookup
        Alternates(list) == IF in_order THEN list ELSE Range(list)
    IN  UNION { UNION { UNION {
            { << records[f].FeatureTag, e[1], Alternates(e[2]) >> :
                e \in EntriesOf(lookups[l + 1].SubTable[k]) } :
            k \in DOMAIN lookups[l + 1].SubTable } :
            l \in Range(records[f].Feature.LookupListIndex) } :
            f \in DOMAIN records }

TableContent(t, in_order) ==
    [ bmp |-> t.sub4, full |-> t.subt, sequences |-> SequencesOf(t),
      glyphs |-> DOMAIN t.glyf,
      substitutions |-> SubstitutionsOf(t, in_order) ]

\* Every run that takes the requests of this run in another order ends
\* like this one, with the same table content.
SameInEveryOrder(in_order) ==
    /\ chars \in Orders(chars)
    /\ vs \in Orders(vs)
    /\ gsub_gspec \in GspecOrders(gsub_gspec)
    /\ \A cs \in Orders(chars), sequences \in Orders(vs),
          gspec \in GspecOrders(gsub_gspec) :
           LET other == addglyph(font0, cs, sequences, gspec,
                                 language_systems)
           IN  /\ other.error = NoError
               /\ TableContent(other.ttf, in_order)
                      = TableContent(ttf, in_order)

GlyphIndices(gspec) ==
    UNION { UNION { { pairs[2][k][n].gid :
                        n \in { m \in 1..2 : IsGid(pairs[2][k][m]) } } :
                    k \in DOMAIN pairs[2] } :
            pairs \in Range(gspec) }

----------------------------------------------------------------------------
(* Reordering of the lookups *)

\* The lookup indices a subtable holds: << path of the record, index >>
NestedReferences(subtable) ==
    LET inner == IF subtable.kind = "ExtensionSubst"
                 THEN subtable.ExtSubTable ELSE subtable
        Of(records, s, r) ==
            { << << s, r, l >>, records[l].LookupListIndex >> :
                l \in DOMAIN records }
        InRuleSet(set, s) ==
            UNION { UNION { Of(set[f][r].SubstLookupRecord, s, r) :
                            r \in DOMAIN set[f] } :
                    f \in DOMAIN set }
        InRuleSets(sets) ==
            UNION { InRuleSet(sets[s][1], s) :
                    s \in { x \in DOMAIN sets : sets[x] # << >> } }
    IN  IF inner.kind \notin { "ContextSubst", "ChainContextSubst" } THEN {}
        ELSE IF "SubstLookupRecord" \in DOMAIN inner
        THEN Of(inner.SubstLookupRecord, 0, 0)
        ELSE UNION { InRuleSets(inner[f]) :
                     f \in DOMAIN inner \ { "kind", "Format" } }

\* What a lookup is, whatever its place in the list and the places of the
\* lookups it refers to
LookupIdentity(lookup) ==
    [ LookupType |-> lookup.LookupType, LookupFlag |-> lookup.LookupFlag,
      MarkFilteringSet |-> lookup.MarkFilteringSet,
      SubTable |->
          [ j \in DOMAIN lookup.SubTable |->
              IF NestedReferences(lookup.SubTable[j]) = {}
              THEN << lookup.SubTable[j] >>
              ELSE << lookup.SubTable[j].kind,
                      { x[1] : x \in NestedReferences(lookup.SubTable[j]) } >>
          ] ]

Designated(t, lookup_index) ==
    IF lookup_index \in 0..(Len(t.GSUB.LookupList.Lookup) - 1)
    THEN << LookupIdentity(LookupAt(t, lookup_index)) >>
    ELSE << >>

\* Every lookup-index reference of GSUB, with the lookup it designates
ReferencesOf(t) ==
    LET g == t.GSUB
        features == g.FeatureList.FeatureRecord
        variations ==
            IF "FeatureVariations" \in DOMAIN g /\ g.FeatureVariations # << >>
            THEN g.FeatureVariations[1].FeatureVariationRecord
            ELSE << >>
        Substitutions(v) ==
            variations[v].FeatureTableSubstitution.SubstitutionRecord
        lookups == g.LookupList.Lookup
    IN  UNION { { << "feature", k, n,
                     Designated(t, features[k].Feature.LookupListIndex[n]) >> :
                    n \in DOMAIN features[k].Feature.LookupListIndex } :
                k \in DOMAIN features }
        \cup
        UNION { UNION { { << "variation", v, r, n,
                             Designated(t, Substitutions(v)[r].Feature
                                               .LookupListIndex[n]) >> :
                            n \in DOMAIN Substitutions(v)[r].Feature
                                             .LookupListIndex } :
                        r \in DOMAIN Substitutions(v) } :
                v \in DOMAIN variations }
        \cup
        UNION { UNION { { << "lookup", LookupIdentity(lookups[k]), j, x[1],
                             Designated(t, x[2]) >> :
                            x \in NestedReferences(lookups[k].SubTable[j]) } :
                        j \in DOMAIN lookups[k].SubTable } :
                k \in DOMAIN lookups }

Occurrences(seq, e) == Cardinality({ k \in DOMAIN seq : seq[k] = e })

IsPermutationOf(after, before) ==
    /\ Len(after) = Len(before)
    /\ \A k \in DOMAIN before :
           Occurrences(after, before[k]) = Occurrences(before, before[k])

Identities(t) ==
    [ k \in DOMAIN t.GSUB.LookupList.Lookup |->
        LookupIdentity(t.GSUB.LookupList.Lookup[k]) ]

----------------------------------------------------------------------------
(* Visibility of a feature from the language systems *)

\* The language systems of GSUB: the default one and the named ones of
\* every script
LanguageSystemsOf(t) ==
    LET scripts == t.GSUB.ScriptList.ScriptRecord
    IN  UNION { (IF scripts[s].Script.DefaultLangSys = << >> THEN {}
                 ELSE { scripts[s].Script.DefaultLangSys[1] })
                \cup { scripts[s].Script.LangSysRecord[k].LangSys :
                         k \in DOMAIN scripts[s].Script.LangSysRecord } :
                s \in DOMAIN scripts }

References(t, langsys, feature_tag) ==
    \E n \in DOMAIN langsys.FeatureIndex :
        /\ langsys.FeatureIndex[n] \in
               0..(Len(t.GSUB.FeatureList.FeatureRecord) - 1)
        /\ t.GSUB.FeatureList.FeatureRecord[langsys.FeatureIndex[n] + 1]
               .FeatureTag = feature_tag

\* C12: when add_rule(tag, target, replacements) returns, every language
\* system (default or named) of every script of GSUB references a feature
\* record that carries the tag.
C12_FeatureVisibility ==
    [][ (pc = "gsub" /\ exception' = NoError) =>
            \A langsys \in LanguageSystemsOf(ttf') :
                References(ttf', langsys, rules[i][1])
      ]_vars

\* The named language system 'JAN ' did not reference the feature 'aalt' of
\* the default one; after the rule it does.
C12_Witness ==
    /\ pc \in { "gsub", "done" }
    /\ i = 2
    /\ rules[1][1] = "aalt"
    /\ Len(font0.GSUB.ScriptList.ScriptRecord) = 1
    /\ Len(font0.GSUB.ScriptList.ScriptRecord[1].Script.LangSysRecord) = 1
    /\ font0.GSUB.ScriptList.ScriptRecord[1].Script.LangSysRecord[1]
           .LangSys.FeatureIndex = << >>
    /\ ttf.GSUB.ScriptList.ScriptRecord[1].Script.LangSysRecord[1]
           .LangSys.FeatureIndex = << 0 >>

-----------------------------------------------------------------------------
(* C13: a rejected rule and the rest of the run                             *)

\* The rule that is being inserted is one that the feature adder rejects:
\* some feature of its tag has several lookups, or a lookup of a type other
\* than 1, 3 and 7 (an Extension lookup: of its subtables' type).
C13_Rejected == pc = "gsub" /\ exception' = "GSUBInvariantViolation"

\* C13: a rule that is rejected with GSUBInvariantViolation is fatal to that
\* rule only: the run goes on with the next rule (or, after the last rule,
\* to its end).
C13_RejectedRuleOnly ==
    [][ C13_Rejected =>
            pc' = IF i < Len(rules) THEN "gsub" ELSE "done" ]_vars

-----------------------------------------------------------------------------
(* C14: the save discipline of a run                                        *)

\* The calls of handler.save so far: each logs the number of added glyphs
\* before it writes the font.
C14_SaveAttempts ==
    Cardinality({ n \in DOMAIN log : log[n].kind = "glyphs added" })

\* Every requested character went through add_glyph and is mapped.
C14_CharsProcessed ==
    \A k \in DOMAIN chars :
        /\ \E n \in DOMAIN log :
               /\ log[n].kind \in { "added", "already in font" }
               /\ log[n].what = << "char", chars[k] >>
        /\ FontCMap_lookup_glyphname(ttf, chars[k]) # None

\* Every requested variation sequence went through add_vs_glyph.
C14_SequencesProcessed ==
    \A k \in DOMAIN vs :
        \E n \in DOMAIN log :
            /\ log[n].kind \in { "added", "already in font" }
            /\ log[n].what \in
                   { << how, vs[k][1][1], vs[k][1][2] >> :
                       how \in { "vs", "vs as default", "vs as non-default" } }

\* Every requested substitution is in a lookup of a feature of its tag.
C14_RulesProcessed ==
    \A t \in DOMAIN gsub_gspec : \A k \in DOMAIN gsub_gspec[t][2] :
        LET pair == gsub_gspec[t][2][k]
            input == AddGlyphHandler_get_glyphname_from_gspec(Handler, pair[1])
            alternate ==
                AddGlyphHandler_get_glyphname_from_gspec(Handler, pair[2])
        IN  \E s \in SubstitutionsOf(ttf, FALSE) :
                /\ s[1] = gsub_gspec[t][1]
                /\ s[2] = input.glyphname
                /\ alternate.glyphname \in s[3]

\* C14: the font is saved at most once in a run, only after all requested
\* codepoints, variation sequences and substitution rules have been
\* processed, and never in a run in which a step raised an error.
C14_SaveDiscipline ==
    /\ C14_SaveAttempts <= 1
    /\ (pc = "save" \/ C14_SaveAttempts = 1) =>
           /\ exception = NoError
           /\ C14_CharsProcessed
           /\ C14_SequencesProcessed
           /\ C14_RulesProcessed
    /\ C14_SaveAttempts = 1 <=> pc = "saved"
    /\ (pc = "aborted" \/ exception # NoError) => C14_SaveAttempts = 0

\* A run with a character, a variation sequence and a rule has saved the font.
C14_Witness ==
    /\ pc = "saved"
    /\ chars # << >> /\ vs # << >> /\ gsub_gspec # << >>
    /\ C14_SaveAttempts = 1
    /\ log[Len(log)] = Msg("glyphs added", added_count)
    /\ added_count > 0

-----------------------------------------------------------------------------
(* C15: a glyph spec that cannot be resolved and the rest of the run        *)

\* The glyph spec of the pair that is being resolved names a variation
\* sequence that is not in the font.
C15_Unresolved == pc = "resolve" /\ exception' = "AddGlyphUserError"

\* C15: a glyph spec that cannot be resolved is an error of that item only:
\* the run goes on with the remaining pairs and rules.
C15_ErrorPerItem ==
    [][ C15_Unresolved => pc' \in { "resolve", "rules", "save" } ]_vars

-----------------------------------------------------------------------------
(* C16: add_glyph(c)                                                        *)

\* The name the claim gives the glyph of c: uniXXXX below 0x10000, uXXXXX
\* otherwise
C16_Name(c) ==
    IF c < 65536 THEN << "u", "n", "i" >> \o Hex04(c) ELSE << "u" >> \o Hex04(c)

\* What add_glyph(c) does when c is not mapped: one blank glyph more, of
\* the name of c, and c mapped to it
C16_Added(c) ==
    /\ C16_Name(c) \notin DOMAIN ttf.glyf
    /\ DOMAIN ttf'.glyf = DOMAIN ttf.glyf \cup { C16_Name(c) }
    /\ Len(ttf'.glyphOrder) = Len(ttf.glyphOrder) + 1
    /\ ttf'.glyf[C16_Name(c)] = "blank"
    /\ \A g \in DOMAIN ttf.glyf : ttf'.glyf[g] = ttf.glyf[g]
    /\ FontCMap_lookup_glyphname(ttf', c) = Some(C16_Name(c))
    /\ added_count' = added_count + 1
    /\ log' = Append(log, Msg("added", << "char", c >>))

\* What add_glyph(c) does when c is mapped: nothing but a log entry
C16_AlreadyInFont(c) ==
    /\ ttf' = ttf
    /\ added_count' = added_count
    /\ log' = Append(log, Msg("already in font", << "char", c >>))

\* C16: add_glyph(c) creates exactly one blank glyph named after c, maps c
\* to it, counts it and logs 'added' when the full-repertoire map has no
\* entry for c; it changes nothing and logs 'already in font' when c is
\* mapped.
C16_AddGlyph ==
    [][ pc = "chars" =>
            IF FontCMap_lookup_glyphname(ttf, chars[i]) = None
            THEN C16_Added(chars[i])
            ELSE C16_AlreadyInFont(chars[i]) ]_vars

-----------------------------------------------------------------------------
(* C17: the glyphs the font had before the run                              *)

\* C17: no operation of a run replaces the outline or the horizontal or
\* vertical metrics of a glyph that the font had before the run.
C17_NothingReplaced ==
    \A g \in DOMAIN font0.glyf :
        /\ ttf.glyf[g] = font0.glyf[g]
        /\ ttf.hmtx[g] = font0.hmtx[g]
        /\ ttf.vmtx[g] = font0.vmtx[g]

-----------------------------------------------------------------------------
(* C18: the feature indices after the legacy removal                        *)

\* The feature indices of a language system are those of feature records,
\* and of the records they were of in the table before
C18_SameFeatures(langsys, before, after) ==
    \A n \in DOMAIN langsys.FeatureIndex :
        LET feature_index == langsys.FeatureIndex[n]
        IN  /\ feature_index < Len(after.FeatureList.FeatureRecord)
            /\ feature_index < Len(before.FeatureList.FeatureRecord)
            /\ after.FeatureList.FeatureRecord[feature_index + 1]
                   = before.FeatureList.FeatureRecord[feature_index + 1]

\* C18: after undo_gsub_win7_fix, every feature index of every remaining
\* language system is within the feature list and designates the feature
\* record it designated before the call, wherever the removed record was.
C18_NoDanglingFeatureIndex ==
    [][ pc = "undo" =>
            \A langsys \in LanguageSystemsOf(ttf') :
                C18_SameFeatures(langsys, ttf.GSUB, ttf'.GSUB) ]_vars

-----------------------------------------------------------------------------
(* C19: the pattern the legacy removal matches                              *)

\* The dummy script of the versions before 3.0: tagged 'hani', no named
\* language systems, a default language system with no lookup order, no
\* required feature and exactly one feature, tagged 'aalt', with no
\* parameters and no lookups
C19_Pattern(g, s) ==
    LET script == g.ScriptList.ScriptRecord[s].Script
    IN  /\ g.ScriptList.ScriptRecord[s].ScriptTag = "hani"
        /\ Len(script.LangSysRecord) = 0
        /\ script.DefaultLangSys # << >>
        /\ script.DefaultLangSys[1].LookupOrder = << >>
        /\ script.DefaultLangSys[1].ReqFeatureIndex = 65535
        /\ Len(script.DefaultLangSys[1].FeatureIndex) = 1
        /\ \E record \in
               { g.FeatureList.FeatureRecord[
                     script.DefaultLangSys[1].FeatureIndex[1] + 1] } :
               /\ record.FeatureTag = "aalt"
               /\ record.Feature.FeatureParams = << >>
               /\ Len(record.Feature.LookupListIndex) = 0

C19_Without(seq, k) == SubSeq(seq, 1, k - 1) \o SubSeq(seq, k + 1, Len(seq))

\* The script record s is removed from before, and the feature record of
\* its one feature index if and only if no language system that remains
\* has that index
C19_Removed(before, after, s) ==
    LET feature_index ==
            before.ScriptList.ScriptRecord[s].Script.DefaultLangSys[1]
                .FeatureIndex[1]
        referenced ==
            \E langsys \in LanguageSystemsOf([ GSUB |-> after ]) :
                \E n \in DOMAIN langsys.FeatureIndex :
                    langsys.FeatureIndex[n] = feature_index
    IN  /\ after.ScriptList.ScriptRecord
               = C19_Without(before.ScriptList.ScriptRecord, s)
        /\ after.ScriptList.ScriptCount = before.ScriptList.ScriptCount - 1
        /\ after.LookupList = before.LookupList
        /\ IF referenced
           THEN after.FeatureList = before.FeatureList
           ELSE /\ after.FeatureList.FeatureRecord
                       = C19_Without(before.FeatureList.FeatureRecord,
                                     feature_index + 1)
                /\ after.FeatureList.FeatureCount
                       = before.FeatureList.FeatureCount - 1

\* C19: undo_gsub_win7_fix removes a script only when it matches the
\* pattern of the dummy script; the script count is then decremented and
\* the feature record is deleted if and only if no remaining language
\* system references its index; when no script matches, GSUB is unchanged.
C19_PatternMatch ==
    [][ pc = "undo" =>
            LET before == ttf.GSUB
                after == ttf'.GSUB
                matching == { s \in DOMAIN before.ScriptList.ScriptRecord :
                                C19_Pattern(before, s) }
            IN  IF matching = {} THEN after = before
                ELSE \E s \in matching : C19_Removed(before, after, s) ]_vars

\* The dummy script was removed from between two scripts that stay, and its
\* feature record with it.
C19_Witness ==
    /\ pc = "resolve"
    /\ font0.GSUB.ScriptList.ScriptCount = 2
    /\ ttf.GSUB.ScriptList.ScriptCount = 1
    /\ ttf.GSUB.ScriptList.ScriptRecord[1].ScriptTag = "DFLT"
    /\ font0.GSUB.FeatureList.FeatureCount = 2
    /\ ttf.GSUB.FeatureList.FeatureCount = 1
    /\ ttf.GSUB.FeatureList.FeatureRecord[1].FeatureTag = "vert"

-----------------------------------------------------------------------------
(* C20: the order of the steps of a run                                     *)

\* The positions of addglyph() before the substitution work: the loops over
\* the characters and over the variation sequences
C20_Insertion == { "load", "chars", "vs" }

\* The positions of addglyph() in the loops that resolve and insert rules
C20_Rules == { "resolve", "rules" }

\* The lookups are where the font had them: nothing was moved or appended.
C20_LookupsInPlace ==
    ttf.GSUB.LookupList = font0.GSUB.LookupList

-----------------------------------------------------------------------------
(* C21: when add_rule creates a feature record                              *)

\* Some language system of the font references a feature record of the tag.
C21_Registered(t, feature_tag) ==
    \E langsys \in LanguageSystemsOf(t) : References(t, langsys, feature_tag)

\* The feature records of the font: their number and their tags in order
C21_FeatureTags(t) ==
    [ count |-> t.GSUB.FeatureList.FeatureCount,
      tags |-> [ f \in DOMAIN t.GSUB.FeatureList.FeatureRecord |->
                   t.GSUB.FeatureList.FeatureRecord[f].FeatureTag ] ]

\* C21: add_rule creates a feature record for a tag only if no language
\* system of any script referenced a feature record of that tag before the
\* call; when the tag is registered under some language system, the feature
\* list is left as it was.
C21_FeatureCreation ==
    [][ (pc = "gsub" /\ C21_Registered(ttf, rules[i][1])) =>
            C21_FeatureTags(ttf') = C21_FeatureTags(ttf) ]_vars

-----------------------------------------------------------------------------
(* C22: the language system a new feature is attached to                    *)

\* The script tags of a font, the (script, langsys) tags of its named
\* language systems, and the scripts that have a default language system
C22_ScriptTags(t) ==
    { t.GSUB.ScriptList.ScriptRecord[s].ScriptTag :
        s \in DOMAIN t.GSUB.ScriptList.ScriptRecord }

C22_NamedTags(t) ==
    UNION { { << t.GSUB.ScriptList.ScriptRecord[s].ScriptTag,
                 t.GSUB.ScriptList.ScriptRecord[s].Script.LangSysRecord[k]
                     .LangSysTag >> :
                k \in DOMAIN t.GSUB.ScriptList.ScriptRecord[s].Script
                          .LangSysRecord } :
            s \in DOMAIN t.GSUB.ScriptList.ScriptRecord }

C22_DefaultTags(t) ==
    { t.GSUB.ScriptList.ScriptRecord[s].ScriptTag :
        s \in { x \in DOMAIN t.GSUB.ScriptList.ScriptRecord :
                  t.GSUB.ScriptList.ScriptRecord[x].Script.DefaultLangSys
                      # << >> } }

C22_Supplied == { language_systems[n] : n \in DOMAIN language_systems }

\* The tags of the records are in ascending order, none twice, and the
\* count that goes with the list is its length.
C22_Ascending(tags, count) ==
    /\ count = Len(tags)
    /\ \A a, b \in DOMAIN tags : a < b => TagRank(tags[a]) < TagRank(tags[b])

C22_Sorted(t) ==
    LET records == t.GSUB.ScriptList.ScriptRecord
    IN  /\ C22_Ascending([ s \in DOMAIN records |-> records[s].ScriptTag ],
                         t.GSUB.ScriptList.ScriptCount)
        /\ \A s \in DOMAIN records :
               C22_Ascending(
                   [ k \in DOMAIN records[s].Script.LangSysRecord |->
                       records[s].Script.LangSysRecord[k].LangSysTag ],
                   records[s].Script.LangSysCount)

\* Every supplied pair exists, and nothing else was created.
C22_Ensured(before, after) ==
    /\ C22_ScriptTags(after)
           = C22_ScriptTags(before) \cup { pair[1] : pair \in C22_Supplied }
    /\ C22_NamedTags(after)
           = C22_NamedTags(before)
                 \cup { pair \in C22_Supplied : pair[2] # "dflt" }
    /\ C22_DefaultTags(after)
           = C22_DefaultTags(before)
                 \cup { pair[1] : pair \in
                          { p \in C22_Supplied : p[2] = "dflt" } }
    /\ C22_Sorted(before) => C22_Sorted(after)

\* The path designates the default language system of the script 'DFLT'
\* when there is such a script, the language system of the first supplied
\* pair otherwise; that language system is there.
C22_Canonical(t, path) ==
    LET records == t.GSUB.ScriptList.ScriptRecord
        first == language_systems[1]
    IN  /\ path[1] \in DOMAIN records
        /\ IF "DFLT" \in C22_ScriptTags(t)
           THEN /\ records[path[1]].ScriptTag = "DFLT"
                /\ path[2] = 0
           ELSE /\ records[path[1]].ScriptTag = first[1]
                /\ IF first[2] = "dflt" THEN path[2] = 0
                   ELSE /\ path[2] \in
                               DOMAIN records[path[1]].Script.LangSysRecord
                        /\ records[path[1]].Script.LangSysRecord[path[2]]
                               .LangSysTag = first[2]
        /\ path[2] = 0 => records[path[1]].Script.DefaultLangSys # << >>

\* The feature record the call created, if it created one, is referenced by
\* the language system at the path.
C22_Attached(before, after, path) ==
    after.GSUB.FeatureList.FeatureCount > before.GSUB.FeatureList.FeatureCount
        => before.GSUB.FeatureList.FeatureCount
               \in Range(LangSysAt(after.GSUB, path).FeatureIndex)

\* C22: once every supplied (script, langsys) pair is ensured to exist,
\* each created at most once and the records kept sorted by tag, a newly
\* created feature is attached to the default language system of the script
\* 'DFLT' when there is such a script, to the language system of the first
\* supplied pair otherwise, and that language system is never absent.
C22_CanonicalLangSys ==
    [][ (pc = "gsub" /\ exception' = NoError) =>
            /\ gsub_adder = << >> => C22_Ensured(ttf, ttf')
            /\ C22_Ensured(font0, ttf')
            /\ C22_Canonical(ttf', gsub_adder'[1].dflt_langsys)
            /\ C22_Attached(ttf, ttf', gsub_adder'[1].dflt_langsys)
      ]_vars

\* Without a script 'DFLT', a feature was created and attached to the named
\* language system of the first supplied pair, which was created too.
C22_Witness ==
    /\ i = 2
    /\ exception = NoError
    /\ language_systems = << << "hani", "JAN " >>, << "kana", "dflt" >> >>
    /\ font0.GSUB.ScriptList.ScriptRecord
           = << ScriptRecord("hani", Some(LangSys(<< 0 >>)), << >>) >>
    /\ rules[1][1] = "vert"
    /\ C22_ScriptTags(ttf) = { "hani", "kana" }
    /\ ttf.GSUB.ScriptList.ScriptRecord[1].Script.LangSysRecord[1].LangSys
           .FeatureIndex = << 1 >>

----------------------------------------------------------------------------
(* C23: one owning lookup of the required kind *)

\* The feature records carrying the tag that some language system references
C23_Features(t, feature_tag) ==
    LET records == t.GSUB.FeatureList.FeatureRecord
    IN  { f \in 0..(Len(records) - 1) :
            /\ records[f + 1].FeatureTag = feature_tag
            /\ \E langsys \in LanguageSystemsOf(t) :
                   f \in Range(langsys.FeatureIndex) }

\* The substitution subtables of a lookup, unwrapped when it is an
\* Extension lookup
C23_Subtables(lookup) ==
    IF lookup.LookupType = 7
    THEN [ k \in DOMAIN lookup.SubTable |-> lookup.SubTable[k].ExtSubTable ]
    ELSE lookup.SubTable

C23_IsAlternate(lookup) ==
    /\ lookup.LookupType \in {3, 7}
    /\ \A k \in DOMAIN lookup.SubTable :
           /\ lookup.LookupType = 7 => lookup.SubTable[k].ExtensionLookupType = 3
           /\ C23_Subtables(lookup)[k].kind = "AlternateSubst"

C23_IsSingle(lookup) ==
    /\ lookup.LookupType \in {1, 7}
    /\ \A k \in DOMAIN lookup.SubTable :
           /\ lookup.LookupType = 7 => lookup.SubTable[k].ExtensionLookupType = 1
           /\ C23_Subtables(lookup)[k].kind = "SingleSubst"

\* The glyphs the lookup substitutes for the target: those of the first
\* subtable that has the target
C23_Alternatives(lookup, target) ==
    LET subtables == C23_Subtables(lookup)
        Entries(k) ==
            IF subtables[k].kind = "SingleSubst"
            THEN [ t \in DOMAIN subtables[k].mapping |->
                     << subtables[k].mapping[t] >> ]
            ELSE IF subtables[k].kind = "AlternateSubst"
            THEN subtables[k].alternates
            ELSE EmptyDict
        having == { k \in DOMAIN subtables : target \in DOMAIN Entries(k) }
    IN  IF having = {} THEN {}
        ELSE Range(Entries(CHOOSE k \in having : \A j \in having : k <= j)
                       [target])

\* The feature record had no lookup before the step, or did not exist
C23_ReferencedNone(t, f) ==
    \/ f >= Len(t.GSUB.FeatureList.FeatureRecord)
    \/ t.GSUB.FeatureList.FeatureRecord[f + 1].Feature.LookupListIndex = << >>

\* The lookups of the feature records of the set
C23_LookupsOf(t, features) ==
    { t.GSUB.FeatureList.FeatureRecord[f + 1].Feature.LookupListIndex[1] :
        f \in features }

\* C23: after a successful add_rule(tag, target, R), every feature record
\* reachable under the tag references exactly one lookup; the lookup list
\* grew by one lookup for each of these feature records that referenced
\* none, and by no other; and the lookup of each is an
\* Alternate-Substitution lookup (plain or Extension-wrapped) whenever the
\* target has more than one alternative in it, a Single-Substitution lookup
\* otherwise, in which the target has the one replacement of the rule.
C23_OneOwningLookup ==
    [][ (pc = "gsub" /\ exception' = NoError) =>
            LET features == C23_Features(ttf', rules[i][1])
                records == ttf'.GSUB.FeatureList.FeatureRecord
                created == { f \in features : C23_ReferencedNone(ttf, f) }
            IN  /\ features # {}
                /\ \A f \in features :
                       Len(records[f + 1].Feature.LookupListIndex) = 1
                /\ Len(ttf'.GSUB.LookupList.Lookup) =
                       Len(ttf.GSUB.LookupList.Lookup) + Cardinality(created)
                /\ ttf'.GSUB.LookupList.LookupCount =
                       Len(ttf'.GSUB.LookupList.Lookup)
                /\ C23_LookupsOf(ttf', created) =
                       Len(ttf.GSUB.LookupList.Lookup)
                           ..(Len(ttf'.GSUB.LookupList.Lookup) - 1)
                /\ \A f \in features :
                       LET lookup == LookupAt(ttf',
                               records[f + 1].Feature.LookupListIndex[1])
                           alternatives ==
                               C23_Alternatives(lookup, rules[i][2])
                       IN  /\ Range(rules[i][3]) \subseteq alternatives
                           /\ IF Cardinality(alternatives) > 1
                              THEN C23_IsAlternate(lookup)
                              ELSE C23_IsAlternate(lookup)
                                       \/ C23_IsSingle(lookup)
                           /\ f \in created /\ Cardinality(alternatives) = 1
                                  => lookup.LookupType = 1
      ]_vars

\* A rule with two replacements was inserted for a feature without a
\* lookup: the lookup created for it is an Alternate-Substitution lookup.
C23_Witness ==
    /\ pc \in {"gsub", "done"}
    /\ i = 2
    /\ exception = NoError
    /\ font0.GSUB.FeatureList.FeatureCount = 1
    /\ font0.GSUB.FeatureList.FeatureRecord[1].Feature.LookupListIndex = << >>
    /\ rules[1] = << "aalt", GlyphA, << GlyphX, GlyphZ >> >>
    /\ ttf.GSUB.FeatureList.FeatureRecord[1].Feature.LookupListIndex = << 0 >>
    /\ ttf.GSUB.LookupList.Lookup =
           << Lookup(3, 0, None,
                  << AlternateSubst(GlyphA :> << GlyphX, GlyphZ >>) >>) >>

----------------------------------------------------------------------------
(* C24: merge into a Single-Substitution lookup *)

\* The glyphs the target is mapped to: by the first subtable that has the
\* target when first_only, by any subtable otherwise
C24_Mapped(lookup, target, first_only) ==
    LET having == { k \in DOMAIN lookup.SubTable :
                      target \in DOMAIN lookup.SubTable[k].mapping }
    IN  { lookup.SubTable[k].mapping[target] :
            k \in { a \in having : first_only => \A b \in having : a <= b } }

\* The messages the step logged
C24_Logged == { log'[n] : n \in (Len(log) + 1)..Len(log') }

C24_LoggedFor(kind, target) ==
    \E message \in C24_Logged :
        message.kind = kind /\ message.what[3] = target

\* The lookup with the entry target -> replacement added to its first
\* subtable, a new one when it has none
C24_WithEntry(lookup, target, replacement) ==
    IF lookup.SubTable = << >>
    THEN [ lookup EXCEPT
             !.SubTable = << SingleSubst(target :> replacement) >>,
             !.SubTableCount = 1 ]
    ELSE [ lookup EXCEPT
             !.SubTable[1].mapping = Put(@, target, replacement) ]

\* The three cases of the merge, for the Single-Substitution lookup old of
\* a feature of the tag and the lookup new at its index after the step
C24_Cases(old, new, target, R, first_only) ==
    LET mapped == C24_Mapped(old, target, first_only)
        M == SingleMapping(old)
    IN  /\ (\E X \in mapped : Range(R) = {X}) =>
               /\ new = old
               /\ C24_LoggedFor("already in font", target)
        /\ (\/ \E X \in mapped : \E n \in DOMAIN R : R[n] # X
            \/ Cardinality(Range(R)) > 1) =>
               /\ new.LookupType = 3
               /\ Len(new.SubTable) = 1
               /\ \A t \in DOMAIN M \ {target} :
                      new.SubTable[1].alternates[t] = << M[t] >>
        /\ (mapped = {} /\ Cardinality(Range(R)) = 1) =>
               /\ new = C24_WithEntry(old, target, R[1])
               /\ C24_LoggedFor("added", target)

C24_Merge(first_only) ==
    (pc = "gsub" /\ exception' = NoError) =>
        LET records == ttf'.GSUB.FeatureList.FeatureRecord
            existing == Len(ttf.GSUB.LookupList.Lookup)
        IN  \A f \in C23_Features(ttf', rules[i][1]) :
                LET lookup_index ==
                        records[f + 1].Feature.LookupListIndex[1]
                    old == IF lookup_index < existing
                           THEN LookupAt(ttf, lookup_index)
                           ELSE Lookup(1, 0, None, << >>)
                IN  old.LookupType = 1 =>
                        C24_Cases(old, LookupAt(ttf', lookup_index),
                                  rules[i][2], rules[i][3], first_only)

\* C24 as stated: when the target already maps to glyph X in some subtable
\* of the Single-Substitution lookup and every requested replacement equals
\* X, nothing changes and 'already in font' is logged; when the target maps
\* to X and some requested replacement differs from X, or more than one
\* distinct replacement is requested, the rule goes to the upgrade with the
\* mapping as it was; when the target is unmapped and one replacement is
\* requested, the entry is added to the first subtable, created if missing.
C24_SingleMergeAnySubtable == [][ C24_Merge(FALSE) ]_vars

\* C24, amended: the same with X the glyph the target maps to in the first
\* subtable of the lookup that has the target.
C24_SingleMerge == [][ C24_Merge(TRUE) ]_vars

\* The target is mapped to X by the first subtable and to Z by the second;
\* the rule asking for Z was escalated to the upgrade.
C24_Witness ==
    /\ i = 2
    /\ exception = NoError
    /\ rules[1] = << "aalt", GlyphA, << GlyphZ >> >>
    /\ font0.GSUB.LookupList.Lookup =
           << Lookup(1, 0, None,
                  << SingleSubst(GlyphA :> GlyphX),
                     SingleSubst(GlyphA :> GlyphZ) >>) >>
    /\ ttf.GSUB.LookupList.Lookup =
           << Lookup(3, 0, None,
                  << AlternateSubst(GlyphA :> << GlyphX, GlyphZ >>) >>) >>

----------------------------------------------------------------------------
(* C25: the retry after the upgrade *)

\* The first try_add_rule of the rule on the lookup returns False: the
\* lookup is a Single-Substitution lookup, plain or Extension-wrapped, that
\* cannot hold the rule.
C25_FirstTryFails(lookup, target, R) ==
    \/ /\ lookup.LookupType = 1
       /\ SingleCannotHold(SingleMapping(lookup), target, R)
    \/ /\ lookup.LookupType = 7
       /\ C23_IsSingle(lookup)
       /\ Cardinality(Range(R)) > 1

\* C25: whenever the first try_add_rule of GSUBFeatureRuleAdder.add_rule
\* returns False, the lookup is a Single-Substitution lookup of type 1 or 7,
\* the upgrade is carried out and the second try_add_rule returns True: the
\* call raises nothing and the lookup, now an Alternate-Substitution lookup,
\* has the requested replacements for the target.
C25_RetrySucceeds ==
    [][ pc = "gsub" =>
            LET records == ttf.GSUB.FeatureList.FeatureRecord
                features == C23_Features(ttf, rules[i][1])
                OneLookup(f) ==
                    Len(records[f + 1].Feature.LookupListIndex) = 1
                lookup_index(f) == records[f + 1].Feature.LookupListIndex[1]
            IN  (/\ features # {}
                 /\ \A f \in features :
                        /\ OneLookup(f)
                        /\ C25_FirstTryFails(LookupAt(ttf, lookup_index(f)),
                                             rules[i][2], rules[i][3]))
                    => /\ exception' = NoError
                       /\ \A f \in features :
                              LET new == LookupAt(ttf', lookup_index(f))
                              IN  /\ C23_IsAlternate(new)
                                  /\ Range(rules[i][3]) \subseteq
                                         C23_Alternatives(new, rules[i][2])
      ]_vars

----------------------------------------------------------------------------
(* C26: Extension-wrapped lookups *)

\* The lookup is an Extension lookup wrapping Single-Substitution or
\* Alternate-Substitution subtables
C26_IsExtension(lookup) ==
    /\ lookup.LookupType = 7
    /\ C23_IsSingle(lookup) \/ C23_IsAlternate(lookup)

\* C26: add_rule on a feature whose single lookup is an Extension lookup
\* wrapping Single-Substitution or Alternate-Substitution subtables
\* completes without error, and the wrapped subtables then give the target
\* the alternatives it had followed by the requested ones, in a lookup that
\* is still an Extension lookup (wrapping Alternate-Substitution when the
\* target has several alternatives).
C26_ExtensionEditable ==
    [][ pc = "gsub" =>
            LET records == ttf.GSUB.FeatureList.FeatureRecord
                features == C23_Features(ttf, rules[i][1])
                OneLookup(f) ==
                    Len(records[f + 1].Feature.LookupListIndex) = 1
                lookup_index(f) == records[f + 1].Feature.LookupListIndex[1]
            IN  (/\ features # {}
                 /\ \A f \in features :
                        /\ OneLookup(f)
                        /\ C26_IsExtension(LookupAt(ttf, lookup_index(f))))
                    => /\ exception' = NoError
                       /\ \A f \in features :
                              LET old == LookupAt(ttf, lookup_index(f))
                                  new == LookupAt(ttf', lookup_index(f))
                                  alternatives ==
                                      C23_Alternatives(new, rules[i][2])
                              IN  /\ new.LookupType = 7
                                  /\ alternatives =
                                         C23_Alternatives(old, rules[i][2])
                                             \cup Range(rules[i][3])
                                  /\ Cardinality(alternatives) > 1
                                         => C23_IsAlternate(new)
      ]_vars

----------------------------------------------------------------------------
(* C27: placement of the appended lookups *)

\* The tags of the feature records that reference the lookup
C27_TagsOf(t, lookup_index) ==
    { t.GSUB.FeatureList.FeatureRecord[f].FeatureTag :
        f \in { x \in DOMAIN t.GSUB.FeatureList.FeatureRecord :
                  lookup_index \in
                      Range(t.GSUB.FeatureList.FeatureRecord[x].Feature
                                .LookupListIndex) } }

C27_Vertical == { "vert", "vrt2" }

\* The lookup is one of vertical writing: referenced by vertical-writing
\* features only when only, by some vertical-writing feature otherwise
C27_IsVertical(t, lookup_index, only) ==
    /\ C27_TagsOf(t, lookup_index) \cap C27_Vertical # {}
    /\ only => C27_TagsOf(t, lookup_index) \subseteq C27_Vertical

\* Number of lookups before S, the maximal contiguous suffix of vertical
\* lookups among the first initial_lookup_count ones
C27_Position(t, initial_lookup_count, only) ==
    CHOOSE position \in 0..initial_lookup_count :
        /\ \A k \in position..(initial_lookup_count - 1) :
               C27_IsVertical(t, k, only)
        /\ position > 0 => ~C27_IsVertical(t, position - 1, only)

C27_Placement(only) ==
    (pc = "done" /\ pc' = "reordered") =>
        LET initial_lookup_count == Val(gsub_adder).initial_lookup_count
            before == Identities(ttf)
            after == Identities(ttf')
            position == C27_Position(ttf, initial_lookup_count, only)
        IN  IF Len(before) = initial_lookup_count
            THEN ttf'.GSUB = ttf.GSUB
            ELSE after = SubSeq(before, 1, position)
                         \o SubSeq(before, initial_lookup_count + 1,
                                   Len(before))
                         \o SubSeq(before, position + 1, initial_lookup_count)

\* C27 as stated: if no lookup was appended since the rule adder was
\* constructed, reorder_lookups changes nothing; otherwise the lookup list
\* becomes the original lookups before S, then the appended lookups in
\* their order of creation, then S, the maximal contiguous suffix of the
\* original lookups that are referenced only by the features 'vert' and
\* 'vrt2'.
C27_PlacementOnlyVertical == [][ C27_Placement(TRUE) ]_vars

\* C27, amended: the same with S the maximal contiguous suffix of the
\* original lookups that are referenced by a feature 'vert' or 'vrt2'.
C27_ReorderPlacement == [][ C27_Placement(FALSE) ]_vars

\* A lookup was appended to a list that ends with a 'vert' lookup, and the
\* reordering has put it before that lookup.
C27_Witness ==
    /\ pc = "reordered"
    /\ Len(font0.GSUB.LookupList.Lookup) = 3
    /\ Len(ttf.GSUB.LookupList.Lookup) = 4
    /\ C27_TagsOf(font0, 2) = { "vert" }
    /\ C27_TagsOf(ttf, 3) = { "vert" }
    /\ C27_TagsOf(ttf, 2) = { "salt" }
    /\ LookupIdentity(LookupAt(ttf, 3)) = LookupIdentity(LookupAt(font0, 2))

----------------------------------------------------------------------------
(* C28: reorder_lookups called twice *)

\* C28: a second call of reorder_lookups on the same rule adder, with no
\* rule added in between, leaves the lookup list and every lookup-index
\* reference as the first call left them.
C28_ReorderIdempotent ==
    [][ (pc = "reordered" /\ pc' = "reordered again") =>
            /\ Identities(ttf') = Identities(ttf)
            /\ ttf'.GSUB = ttf.GSUB
      ]_vars

----------------------------------------------------------------------------
(* C29: a rejected rule *)

\* GSUB when GSUBRuleAdder.add_rule is called: the rule adder is
\* constructed first if the handler has none yet
C29_BeforeAddRule ==
    AddGlyphHandler_get_gsub_adder(Handler, language_systems).ttf.GSUB

\* C29: when GSUBRuleAdder.add_rule raises GSUBInvariantViolation for a
\* tag, the script, feature and lookup lists and every substitution mapping
\* are the same as before the call, including for the other feature records
\* that carry the tag.
C29_RejectedRuleNoEffect ==
    [][ (pc = "gsub" /\ exception' = "GSUBInvariantViolation") =>
            ttf'.GSUB = C29_BeforeAddRule
      ]_vars

----------------------------------------------------------------------------
(* C30: add_rule and the features of the other tags *)

\* The lookups referenced by the feature records that carry another tag
C30_LookupsOfOtherTags(t, feature_tag) ==
    UNION { Range(t.GSUB.FeatureList.FeatureRecord[f].Feature.LookupListIndex) :
            f \in { x \in DOMAIN t.GSUB.FeatureList.FeatureRecord :
                      t.GSUB.FeatureList.FeatureRecord[x].FeatureTag
                          # feature_tag } }

\* C30: add_rule(tag, target, R) leaves the kind and the substitution
\* mapping of every lookup referenced by a feature record of a different
\* tag unchanged.
C30_ConfinedToTag ==
    [][ pc = "gsub" =>
            \A lookup_index \in
                   C30_LookupsOfOtherTags(ttf, rules[i][1]) :
                /\ LookupAt(ttf', lookup_index).LookupType =
                       LookupAt(ttf, lookup_index).LookupType
                /\ LookupAt(ttf', lookup_index).SubTable =
                       LookupAt(ttf, lookup_index).SubTable
      ]_vars

====
